---- MODULE Spec2Model ----
(***************************************************************************)
(* Model of the Jenkins fleet autoscaler                                   *)
(* (services/jenkins-autoscaling/lambda_mxnet_ci/autoscaling/handler.py).  *)
(*                                                                         *)
(* The master (Jenkins) and the VM provider (EC2) are the only state that  *)
(* survives a pass.  One pass of scaling() is modelled as a sequence of     *)
(* steps; every master/provider request of a fan-out is one step.  The     *)
(* analyzers and the two caps are operators, translated from their code.   *)
(***************************************************************************)
EXTENDS Integers, Sequences, FiniteSets, TLC

VARIABLES
    \* --- the world outside the process
    nodes,              \* master: display name -> executor record
    instances,          \* provider: Name tag -> managed pending/running VM
    queue,              \* master: build queue items
    now,                \* time.time() of the pass, in seconds
    warm_pool_size,     \* os.environ['WARM_POOL_SIZE']
    \* --- locals of scaling() and of the functions it calls
    pc,                 \* position of the pass
    snap,               \* nodes: jenkins.get_nodes()._data['computer']
    instance_uptime,    \* _instance_uptime(): Name -> seconds
    label2num_instances,\* demand after _apply_upscale_limit
    scale_down_selected,\* what determine_scale_down_nodes returned
    retire_after_cap,   \* scale_down_nodes after _apply_downscale_limit
    label2faulty_nodes, \* faulty executors per label
    orphaned_instances, \* orphan VM names
    scale_down_nodes,   \* retire_after_cap merged with label2faulty_nodes
    nodes_online,       \* execute_scale_down_logic: online retirees
    nodes_offline,      \* execute_scale_down_logic: already-offline retirees
    polled,             \* _partition_non_idle: name -> what the poll saw
    final_list,         \* final_scale_down_nodes_list (names)
    scale_up_slots,     \* _create_jenkins_node_slots: label -> new names
    started,            \* _launch_ec2_instances: started instance names
    items,              \* the items of the running fan-out
    todo,               \* those of them not yet requested
    failed,             \* the exception a request of the fan-out raised
    \* --- what the pass did (requests sent, answers, log records)
    req,                \* kind of request -> names it was sent for
    delete_outcome,     \* _delete_jenkins_node_object: name -> what happened
    errlog,             \* error-level log records (message, name) -> count
    env_steps,          \* events of the outside world during the pass
    faults,             \* transient request failures so far
    \* --- argument and result of a function checked on its own
    arg,
    ret

vars == << nodes, instances, queue, now, warm_pool_size, pc, snap,
           instance_uptime, label2num_instances, scale_down_selected,
           retire_after_cap, label2faulty_nodes, orphaned_instances,
           scale_down_nodes, nodes_online, nodes_offline, polled, final_list,
           scale_up_slots, started, items, todo, failed, req, delete_outcome,
           errlog, env_steps, faults, arg, ret >>

-----------------------------------------------------------------------------
(* Program constants                                                       *)

DOWNSCALE_REASON == "[AUTOSCALING] Downscale"
DOWNSCALE_MANUAL_REASON == "[DOWNSCALE]"
NODE_MONITOR_OFFLINE_CAUSE == "hudson.node_monitors"
\* mutant of WINDOWS_MIN_PARTIAL_RUNTIME_SECONDS: the last minute of the hour
LastMinuteOfTheHour == 59 * 60
WINDOWS_MIN_PARTIAL_RUNTIME_SECONDS == 55 * 60
EC2_FILTER_CHUNK_SIZE == 40

\* The two per-round caps are 20 and 40 in the source.  The model runs the
\* pass with smaller caps so that a fleet of a few executors exceeds them.
NUM_UPSCALES_PER_ROUND == 1
NUM_DOWNSCALES_PER_ROUND == 1

-----------------------------------------------------------------------------
(* Bounds of the model                                                     *)

MaxEnvSteps == 1        \* outside events (build starts, admin action) per pass
MaxFaults == 1          \* transient request failures per pass
MaxCount == 7           \* largest requested count of one label (cap functions)
MaxLimit == 5           \* largest cap handed to the cap functions
MaxList == 2            \* longest retire list of one label (cap functions)
MaxQueue == 4           \* longest build queue handed to the demand analyzer
MaxNames == 100         \* longest name list handed to _terminate_ec2_instances

-----------------------------------------------------------------------------
(* Configuration (environment variables read once per process)             *)

LINUX == "mxnetlinux-cpu"
WINDOWS == "mxnetwindows-cpu"
IGNORED == "mxnetlinux"
\* an ignored label that still has its per-label settings
RETIRED == "mxnetwindows"

_managed_jenkins_node_labels == {LINUX, WINDOWS}
_ignored_jenkins_node_labels == {IGNORED, RETIRED, "master"}
_ignored_jenkins_node_names == {"master", "reserved1"}
_warm_pool_node_counts == warm_pool_size
_minimum_queue_times_sec == (LINUX :> 30) @@ (WINDOWS :> 30) @@ (RETIRED :> 30)
_maximum_startup_time == (LINUX :> 300) @@ (WINDOWS :> 1800)
_get_nb_executors_per_label == (LINUX :> 3) @@ (WINDOWS :> 4) @@ (RETIRED :> 4)
\* the labels with a launch template and the labels with a slot configuration:
\* every managed label in a pass; drawn when scale-up is run on its own
_launch_templates ==
    IF arg.fn = "execute_scale_up_logic" THEN arg.launch_templates ELSE {LINUX, WINDOWS}
_get_slave_configuration ==
    IF arg.fn = "execute_scale_up_logic" THEN arg.slave_configuration
    ELSE {LINUX, WINDOWS}
linux_types == {LINUX}
windows_types == {WINDOWS}

-----------------------------------------------------------------------------
(* Helpers                                                                 *)

None == "None"
Range(f) == {f[x] : x \in DOMAIN f}
Min(a, b) == IF a < b THEN a ELSE b
Max(a, b) == IF a > b THEN a ELSE b
EmptyMap == [x \in {} |-> 0]
Perms(S) == {s \in [1..Cardinality(S) -> S] : Range(s) = S}
SeqToSet(s) == {s[i] : i \in 1..Len(s)}
Restrict(f, S) == [x \in S |-> f[x]]

\* math.ceil(a / b) for a >= 0, b > 0
Ceil(a, b) == (a + b - 1) \div b

RECURSIVE SumMap(_)
SumMap(m) ==
    IF DOMAIN m = {} THEN 0
    ELSE LET k == CHOOSE x \in DOMAIN m : TRUE
         IN m[k] + SumMap(Restrict(m, DOMAIN m \ {k}))

RECURSIVE SumLen(_)
SumLen(m) ==
    IF DOMAIN m = {} THEN 0
    ELSE LET k == CHOOSE x \in DOMAIN m : TRUE
         IN Len(m[k]) + SumLen(Restrict(m, DOMAIN m \ {k}))

\* s without the elements at the positions in drop
RECURSIVE RemoveAt(_, _, _)
RemoveAt(s, drop, i) ==
    IF i > Len(s) THEN << >>
    ELSE (IF i \in drop THEN << >> ELSE << s[i] >>) \o RemoveAt(s, drop, i + 1)

\* every list that k calls of list.pop(random.randrange(0, len(list))) can leave
PopRandom(s, k) ==
    {RemoveAt(s, drop, 1) : drop \in {d \in SUBSET (1..Len(s)) : Cardinality(d) = k}}

\* str.startswith, on the strings the model uses
StartsWith(s, prefix) ==
    \/ s = prefix
    \/ prefix = DOWNSCALE_MANUAL_REASON /\ s \in {"[DOWNSCALE] Reason2"}
    \/ prefix = NODE_MONITOR_OFFLINE_CAUSE
         /\ s \in {"hudson.node_monitors.DiskSpaceMonitorDescriptor$DiskSpace",
                   "hudson.node_monitors.ResponseTimeMonitor$Data"}


-----------------------------------------------------------------------------
(* _apply_upscale_limit(limit, label2num_instances)                        *)
(* A dict is a function together with its insertion order (a sequence of   *)
(* its keys); sorted() is stable, so ties keep the insertion order.        *)

Pos(order, x) == CHOOSE i \in 1..Len(order) : order[i] = x

\* mutant of SortedByCount: the dict is walked in its insertion order
NotSorted(m, order) == order

\* OrderedDict(sorted(label2num_instances.items(), key=lambda t: t[1]))
SortedByCount(m, order) ==
    CHOOSE s \in Perms(DOMAIN m) :
        \A i, j \in 1..Len(s) :
            i < j => \/ m[s[i]] < m[s[j]]
                     \/ m[s[i]] = m[s[j]] /\ Pos(order, s[i]) < Pos(order, s[j])

\* mutant of NewValue: the min with num_nodes_left is dropped
NewValueUnclamped(num_nodes_left, num_max_nodes, limit, total_num_requested) ==
    Ceil(num_max_nodes * limit, total_num_requested)

\* new_value = min(num_nodes_left, int(math.ceil(num_max_nodes * reduction_factor)))
\* with reduction_factor = limit / total_num_requested.  For the counts and
\* limits of this model the double-precision product rounds to the same
\* ceiling as the exact quotient.
NewValue(num_nodes_left, num_max_nodes, limit, total_num_requested) ==
    Min(num_nodes_left, Ceil(num_max_nodes * limit, total_num_requested))

RECURSIVE UpscaleLoop(_, _, _, _, _, _)
UpscaleLoop(ordered, m, limit, total, num_nodes_left, new_scale_up_num_nodes) ==
    IF ordered = << >> THEN new_scale_up_num_nodes
    ELSE LET label == Head(ordered)
             new_value == NewValue(num_nodes_left, m[label], limit, total)
         IN UpscaleLoop(Tail(ordered), m, limit, total, num_nodes_left - new_value,
                        new_scale_up_num_nodes @@ (label :> new_value))

\* result: [raised |-> None or the exception, value |-> the returned dict]
_apply_upscale_limit(limit, label2num, order) ==
    LET total_num_requested == SumMap(label2num)
    IN IF total_num_requested <= limit
       THEN [raised |-> None, value |-> label2num]
       ELSE LET new == UpscaleLoop(SortedByCount(label2num, order), label2num, limit,
                                   total_num_requested, limit, EmptyMap)
            IN IF SumMap(new) = limit
               THEN [raised |-> None, value |-> new]
               ELSE [raised |-> "AssertionError", value |-> EmptyMap]

-----------------------------------------------------------------------------
(* _apply_downscale_limit(limit, scale_down_nodes)                         *)
(* shuffeled is the label order random.shuffle leaves.                     *)

\* mutant of DownscaleInner: the comparison is i >= limit + 2 (off by one)
RECURSIVE DownscaleInnerOffByOne(_, _, _, _)
DownscaleInnerOffByOne(limit, nodelist, i, out) ==
    IF nodelist = << >> THEN [i |-> i, out |-> out]
    ELSE IF i + 1 > limit + 1 THEN [i |-> i + 1, out |-> out]
    ELSE DownscaleInnerOffByOne(limit, Tail(nodelist), i + 1, Append(out, Head(nodelist)))

\* for node in nodes: i += 1; if i > limit: break; else: append(node)
RECURSIVE DownscaleInner(_, _, _, _)
DownscaleInner(limit, nodelist, i, out) ==
    IF nodelist = << >> THEN [i |-> i, out |-> out]
    ELSE IF i + 1 > limit THEN [i |-> i + 1, out |-> out]
    ELSE DownscaleInner(limit, Tail(nodelist), i + 1, Append(out, Head(nodelist)))

RECURSIVE DownscaleOuter(_, _, _, _, _)
DownscaleOuter(limit, m, shuffeled, i, new_scale_down_nodes) ==
    IF shuffeled = << >> THEN new_scale_down_nodes
    ELSE LET label == Head(shuffeled)
             r == DownscaleInner(limit, m[label], i, << >>)
             acc == IF r.out = << >> THEN new_scale_down_nodes
                    ELSE new_scale_down_nodes @@ (label :> r.out)
         IN IF r.i >= limit THEN acc
            ELSE DownscaleOuter(limit, m, Tail(shuffeled), r.i, acc)

\* mutant of _apply_downscale_limit: the cap is not applied
NoDownscaleLimit(limit, scale_down, shuffeled) == scale_down

_apply_downscale_limit(limit, scale_down, shuffeled) ==
    DownscaleOuter(limit, scale_down, shuffeled, 0, EmptyMap)

-----------------------------------------------------------------------------
(* Node dicts, instance records and the helpers that read them             *)

\* dict.get(k, default)
Get(m, k, default) == IF k \in DOMAIN m THEN m[k] ELSE default
\* defaultdict(list)[k].append(v)
AppendTo(m, k, v) ==
    IF k \in DOMAIN m THEN [m EXCEPT ![k] = Append(@, v)] ELSE m @@ (k :> << v >>)
\* the keys of a dict of lists, without the empty lists
NonEmpty(m) == Restrict(m, {k \in DOMAIN m : m[k] # << >>})

\* 'Windows' in architecture
IsWindows(architecture) == architecture = "Windows NT (unknown) (amd64)"

\* what _find_node_by_name returns when no node has the name (Python None)
NoNode == [exists |-> FALSE]

RECURSIVE _find_node_by_name(_, _)
_find_node_by_name(nodes_data, name) ==
    IF nodes_data = << >> THEN NoNode
    ELSE IF name = Head(nodes_data).displayName THEN Head(nodes_data)
    ELSE _find_node_by_name(Tail(nodes_data), name)

\* mutant of _managed_node_label: the blacklist is not consulted
ManagedLabelNoBlacklist(node) ==
    LET intersection_match == node.assignedLabels \cap _managed_jenkins_node_labels
    IN IF Cardinality(intersection_match) # 1 THEN None
       ELSE CHOOSE l \in intersection_match : TRUE

_managed_node_label(node) ==
    LET assigned_labels == node.assignedLabels
        intersection_blacklist == assigned_labels \cap _ignored_jenkins_node_labels
        intersection_match == assigned_labels \cap _managed_jenkins_node_labels
    IN IF intersection_blacklist # {} THEN CHOOSE l \in intersection_blacklist : TRUE
       ELSE IF Cardinality(intersection_match) > 1 THEN None
       ELSE IF intersection_match = {} THEN None
       ELSE CHOOSE l \in intersection_match : TRUE

\* mutant of _get_idle_nodes_per_label: the busy nodes are counted
BusyNodesPerLabel(nodes_data) ==
    LET busy == SelectSeq(nodes_data, LAMBDA node_data :
                    ~node_data.offline /\ ~node_data.idle)
    IN [label \in {_managed_node_label(busy[k]) : k \in DOMAIN busy} |->
          Len(SelectSeq(busy, LAMBDA node_data : _managed_node_label(node_data) = label))]

\* mutant of _get_idle_nodes_per_label: no node is counted
NoIdleNodes(nodes_data) == EmptyMap

RECURSIVE _get_idle_nodes_per_label(_)
_get_idle_nodes_per_label(nodes_data) ==
    IF nodes_data = << >> THEN EmptyMap
    ELSE LET node_data == Head(nodes_data)
             results == _get_idle_nodes_per_label(Tail(nodes_data))
             label == _managed_node_label(node_data)
         IN IF node_data.offline \/ ~node_data.idle THEN results
            ELSE IF label \in DOMAIN results
                 THEN [results EXCEPT ![label] = @ + 1]
                 ELSE results @@ (label :> 1)

\* _instance_uptime: managed pending/running instances, minus the ignored names
RECURSIVE _instance_uptime(_)
_instance_uptime(insts) ==
    IF insts = << >> THEN EmptyMap
    ELSE LET instance == Head(insts)
             rest == _instance_uptime(Tail(insts))
         IN IF instance.Name \in _ignored_jenkins_node_names THEN rest
            ELSE (instance.Name :> instance.uptime) @@ rest

\* _unconnected_instances: label tag -> Name tags of the instances whose node
\* is offline and not temporarily offline, or that have no node
RECURSIVE UnconnectedLoop(_, _, _)
UnconnectedLoop(nodes_data, insts, dict_starting_nodes) ==
    IF insts = << >> THEN dict_starting_nodes
    ELSE LET instance == Head(insts)
             target_node == _find_node_by_name(nodes_data, instance.Name)
         IN IF target_node # NoNode
            THEN (IF target_node.offline /\ ~target_node.temporarilyOffline
                  THEN UnconnectedLoop(nodes_data, Tail(insts),
                                       AppendTo(dict_starting_nodes, instance.label,
                                                instance.Name))
                  ELSE UnconnectedLoop(nodes_data, Tail(insts), dict_starting_nodes))
            ELSE UnconnectedLoop(nodes_data, Tail(insts),
                                 AppendTo(dict_starting_nodes, instance.label,
                                          instance.Name))

\* mutant of _unconnected_instances: temporarilyOffline is not looked at
OfflineIsUnconnected(nodes_data, insts) ==
    LET starting == SelectSeq(insts, LAMBDA instance :
                        \/ _find_node_by_name(nodes_data, instance.Name) = NoNode
                        \/ _find_node_by_name(nodes_data, instance.Name).offline)
    IN [label \in {starting[k].label : k \in DOMAIN starting} |->
          LET of_label == SelectSeq(starting, LAMBDA instance : instance.label = label)
          IN [k \in DOMAIN of_label |-> of_label[k].Name]]

_unconnected_instances(nodes_data, insts) == UnconnectedLoop(nodes_data, insts, EmptyMap)

\* instance_uptime[target_node['displayName']] raises KeyError: the instance
\* of a node that is starting up is not in the uptime map
UnconnectedRaises(nodes_data, insts, uptime) ==
    \E i \in DOMAIN insts :
        /\ _find_node_by_name(nodes_data, insts[i].Name) # NoNode
        /\ _find_node_by_name(nodes_data, insts[i].Name).offline
        /\ ~_find_node_by_name(nodes_data, insts[i].Name).temporarilyOffline
        /\ insts[i].Name \notin DOMAIN uptime

-----------------------------------------------------------------------------
(* determine_scale_down_nodes(nodes_data, instance_uptime)                 *)

\* mutant of WindowsTooEarly: the hourly-billing rule is not applied
WindowsNeverTooEarly(running_duration_seconds) == FALSE

\* running_duration_partial < WINDOWS_MIN_PARTIAL_RUNTIME_SECONDS
WindowsTooEarly(running_duration_seconds) ==
    running_duration_seconds % (60 * 60) < WINDOWS_MIN_PARTIAL_RUNTIME_SECONDS

RECURSIVE ScaleDownLoop(_, _, _, _)
ScaleDownLoop(nodes_data, uptime, nodes_to_disable, considered_nodes) ==
    IF nodes_data = << >>
    THEN [nodes_to_disable |-> nodes_to_disable, considered_nodes |-> considered_nodes]
    ELSE LET node_data == Head(nodes_data)
             rest == Tail(nodes_data)
             display_name == node_data.displayName
             label == _managed_node_label(node_data)
             skip == ScaleDownLoop(rest, uptime, nodes_to_disable, considered_nodes)
         IN IF ~(~node_data.offline /\ node_data.idle) THEN skip
            ELSE IF label = None THEN skip
            ELSE IF label \notin _managed_jenkins_node_labels THEN skip
            ELSE IF node_data.architecture = None THEN skip
            ELSE IF IsWindows(node_data.architecture) /\ display_name \notin DOMAIN uptime
                 THEN skip
            ELSE IF IsWindows(node_data.architecture)
                    /\ WindowsTooEarly(uptime[display_name])
                 THEN ScaleDownLoop(rest, uptime, nodes_to_disable,
                                    AppendTo(considered_nodes, label, display_name))
            ELSE ScaleDownLoop(rest, uptime,
                               AppendTo(nodes_to_disable, label, display_name),
                               AppendTo(considered_nodes, label, display_name))

\* warm_value -= (len(cur_considered_nodes) - len(cur_nodes))
WarmValue(r, warm_label) ==
    _warm_pool_node_counts[warm_label]
        - (Len(Get(r.considered_nodes, warm_label, << >>))
           - Len(Get(r.nodes_to_disable, warm_label, << >>)))

\* mutant of WarmPoolLeaves: the warm pool is ignored
WarmPoolLeavesAll(r, label) == {Get(r.nodes_to_disable, label, << >>)}

\* the lists the warm-pool loop can leave in nodes_to_disable[label]
WarmPoolLeaves(r, label) ==
    LET cur_nodes == Get(r.nodes_to_disable, label, << >>)
    IN IF label \in DOMAIN _warm_pool_node_counts /\ cur_nodes # << >>
          /\ WarmValue(r, label) > 0
       THEN PopRandom(cur_nodes, WarmValue(r, label))
       ELSE {cur_nodes}

\* random.randrange(0, 0) raises ValueError: more pops than entries
WarmPoolRaises(r, label) ==
    /\ label \in DOMAIN _warm_pool_node_counts
    /\ Get(r.nodes_to_disable, label, << >>) # << >>
    /\ WarmValue(r, label) > Len(Get(r.nodes_to_disable, label, << >>))

\* every result the random pops allow: [raised, value]
determine_scale_down_nodes(nodes_data, uptime) ==
    LET r == ScaleDownLoop(nodes_data, uptime, EmptyMap, EmptyMap)
        labels == DOMAIN r.nodes_to_disable \cup DOMAIN _warm_pool_node_counts
    IN IF \E l \in labels : WarmPoolRaises(r, l)
       THEN {[raised |-> "ValueError", value |-> EmptyMap]}
       ELSE {[raised |-> None, value |-> NonEmpty(f)] :
               f \in {g \in [labels -> UNION {WarmPoolLeaves(r, l) : l \in labels}] :
                        \A l \in labels : g[l] \in WarmPoolLeaves(r, l)}}

-----------------------------------------------------------------------------
(* _determine_faulty_nodes(nodes, unconnected_instances, instance_uptime)  *)

LabelOrder == << LINUX, WINDOWS, IGNORED, RETIRED, "master" >>
KeysInOrder(m) == SelectSeq(LabelOrder, LAMBDA l : l \in DOMAIN m)

\* first loop, over the instances of one label
\* mutant of StartedTooLate: the limit itself counts as too late
StartedTooLateAtLimit(uptime, label) == uptime >= _maximum_startup_time[label]

\* uptime > maximum_startup_limit
StartedTooLate(uptime, label) == uptime > _maximum_startup_time[label]

RECURSIVE FaultyStartup(_, _, _, _, _)
FaultyStartup(nodes_data, label, insts, uptime, acc) ==
    IF insts = << >> THEN acc
    ELSE LET instance == Head(insts)
             node == _find_node_by_name(nodes_data, instance)
         IN IF node = NoNode
            THEN FaultyStartup(nodes_data, label, Tail(insts), uptime,
                               [acc EXCEPT !.orphaned = Append(@, instance)])
            ELSE IF StartedTooLate(uptime[instance], label)
            THEN FaultyStartup(nodes_data, label, Tail(insts), uptime,
                               [acc EXCEPT !.faulty = AppendTo(@, label, node.displayName)])
            ELSE FaultyStartup(nodes_data, label, Tail(insts), uptime, acc)

RECURSIVE FaultyStartupLabels(_, _, _, _, _)
FaultyStartupLabels(nodes_data, labels, unconnected, uptime, acc) ==
    IF labels = << >> THEN acc
    ELSE FaultyStartupLabels(nodes_data, Tail(labels), unconnected, uptime,
                             FaultyStartup(nodes_data, Head(labels),
                                           unconnected[Head(labels)], uptime, acc))

\* mutant of IsFaulty: the offline cause of the monitors is not looked at
IsFaultyNoMonitor(node, uptime) ==
    \/ node.offlineCauseReason = DOWNSCALE_REASON
    \/ StartsWith(node.offlineCauseReason, DOWNSCALE_MANUAL_REASON)
    \/ node.displayName \notin DOMAIN uptime

\* mutant of IsFaulty: a slot without instance is not reported
IsFaultyNoSlotCheck(node, uptime) ==
    \/ /\ node.temporarilyOffline /\ node.offlineCauseClass # None
       /\ StartsWith(node.offlineCauseClass, NODE_MONITOR_OFFLINE_CAUSE)
    \/ node.offlineCauseReason = DOWNSCALE_REASON
    \/ StartsWith(node.offlineCauseReason, DOWNSCALE_MANUAL_REASON)

\* the elif chain of the second loop, for a node that has a label
IsFaulty(node, uptime) ==
    \/ /\ node.temporarilyOffline /\ node.offlineCauseClass # None
       /\ StartsWith(node.offlineCauseClass, NODE_MONITOR_OFFLINE_CAUSE)
    \/ node.offlineCauseReason = DOWNSCALE_REASON
    \/ StartsWith(node.offlineCauseReason, DOWNSCALE_MANUAL_REASON)
    \/ node.displayName \notin DOMAIN uptime

RECURSIVE FaultyNodesLoop(_, _, _)
FaultyNodesLoop(nodes_data, uptime, label2faulty) ==
    IF nodes_data = << >> THEN label2faulty
    ELSE LET node == Head(nodes_data)
             label == _managed_node_label(node)
         IN IF node.displayName = "master"
            THEN FaultyNodesLoop(Tail(nodes_data), uptime, label2faulty)
            ELSE IF label = None
            THEN FaultyNodesLoop(Tail(nodes_data), uptime, label2faulty)
            ELSE IF IsFaulty(node, uptime)
            THEN FaultyNodesLoop(Tail(nodes_data), uptime,
                                 AppendTo(label2faulty, label, node.displayName))
            ELSE FaultyNodesLoop(Tail(nodes_data), uptime, label2faulty)

\* [faulty |-> label -> names, orphaned |-> names]
_determine_faulty_nodes(nodes_data, unconnected, uptime) ==
    LET first == FaultyStartupLabels(nodes_data, KeysInOrder(unconnected), unconnected,
                                     uptime, [faulty |-> EmptyMap, orphaned |-> << >>])
    IN [faulty |-> NonEmpty(FaultyNodesLoop(nodes_data, uptime, first.faulty)),
        orphaned |-> first.orphaned]

\* _merge_dicts_nested_lists(dict1, dict2)
_merge_dicts_nested_lists(dict1, dict2) ==
    [key \in DOMAIN dict1 \cup DOMAIN dict2 |->
        Get(dict1, key, << >>) \o Get(dict2, key, << >>)]

-----------------------------------------------------------------------------
(* Queue reasons and the regular expressions that read them                *)
(* A text is a sequence of tokens: a token is a run of characters that are *)
(* neither white space nor punctuation, or one single other character.     *)
(* The two curly quotes are the tokens LSQ and RSQ.                        *)

LSQ == "[U+2018]"
RSQ == "[U+2019]"

\* the words of a phrase, one blank between two words
RECURSIVE Words(_)
Words(ws) ==
    IF ws = << >> THEN << >>
    ELSE IF Len(ws) = 1 THEN ws
    ELSE << Head(ws), " " >> \o Words(Tail(ws))

\* the character class [^\s;\\] of the named group
InLabelClass(token) == token \notin {" ", "\t", "\n", ";", "\\"}

\* a pattern (literal)(?P<label>[^\s;\\]*)(literal)
Regex(prefix, suffix) == [prefix |-> prefix, suffix |-> suffix]

RE_NO_AVAILABLE_NODE ==
    << Regex(Words(<< "There", "are", "no", "nodes", "with", "the", "label" >>)
               \o << " ", LSQ >>, << RSQ >>),
       Regex(Words(<< "All", "nodes", "of", "label" >>) \o << " ", LSQ >>,
             << RSQ, " " >> \o Words(<< "are", "offline" >>)),
       Regex(<< "doesn", RSQ, "t", " " >> \o Words(<< "have", "label" >>) \o << " " >>,
             << >>),
       Regex(Words(<< "Waiting", "for", "next", "available", "executor", "on" >>)
               \o << " " >>, << >>),
       Regex(<< >>, << " " >> \o Words(<< "is", "offline" >>)) >>

\* ^Waiting for next available executor$
RE_NO_AVAILABLE_NODES == Words(<< "Waiting", "for", "next", "available", "executor" >>)

MatchesAt(literal, text, i) ==
    /\ i + Len(literal) - 1 <= Len(text)
    /\ \A k \in 1..Len(literal) : text[i + k - 1] = literal[k]

\* the positions where the group can end for a match that starts at i
GroupEnds(re, text, i) ==
    {j \in (i + Len(re.prefix) - 1)..Len(text) :
        /\ \A k \in (i + Len(re.prefix))..j : InLabelClass(text[k])
        /\ MatchesAt(re.suffix, text, j + 1)}

NoMatch == [matched |-> FALSE, label |-> << >>]

\* the positions where a match can start
Starts(re, text) ==
    {i \in 1..(Len(text) + 1) :
        MatchesAt(re.prefix, text, i) /\ GroupEnds(re, text, i) # {}}

Leftmost(positions) == CHOOSE x \in positions : \A y \in positions : x <= y
Rightmost(positions) == CHOOSE x \in positions : \A y \in positions : y <= x

\* the match that starts at i, its group as long as possible
MatchFrom(re, text, i) ==
    [matched |-> TRUE,
     label |-> SubSeq(text, i + Len(re.prefix), Rightmost(GroupEnds(re, text, i)))]

LeftmostMatch(re, text, starts) ==
    IF starts = {} THEN NoMatch ELSE MatchFrom(re, text, Leftmost(starts))

\* re.search: the leftmost match, its group as long as possible
re_search(re, text) == LeftmostMatch(re, text, Starts(re, text))

\* for re_available_node in RE_NO_AVAILABLE_NODE: ... break / else
RECURSIVE FirstMatch(_, _)
BreakOrNext(regex_result, res, text) ==
    IF regex_result.matched THEN regex_result ELSE FirstMatch(Tail(res), text)

FirstMatch(res, text) ==
    IF res = << >> THEN NoMatch
    ELSE BreakOrNext(re_search(Head(res), text), res, text)

\* mutant of MatchesWhole: the pattern matches no text
MatchesNothing(literal, text) == FALSE

\* the pattern with ^ and $: the whole text, a final newline allowed
MatchesWhole(literal, text) == text = literal \/ text = literal \o << "\n" >>

StripChars == {" ", LSQ, RSQ, "'", "\""}

\* mutant of Strip: nothing is stripped
StripNothing(tokens) == tokens

\* str.strip(chars)
RECURSIVE Strip(_)
Strip(tokens) ==
    IF tokens = << >> THEN << >>
    ELSE IF Head(tokens) \in StripChars THEN Strip(Tail(tokens))
    ELSE IF tokens[Len(tokens)] \in StripChars
         THEN Strip(SubSeq(tokens, 1, Len(tokens) - 1))
    ELSE tokens

\* the string the tokens spell
RECURSIVE Join(_)
Join(tokens) == IF tokens = << >> THEN "" ELSE Head(tokens) \o Join(Tail(tokens))

-----------------------------------------------------------------------------
(* determine_scale_up_nodes(queue_items, nodes, unconnected)               *)

LabelOfNode(node) ==
    IF node = NoNode
    THEN [label |-> None, error |-> "contains unresolvable label"]
    ELSE IF _managed_node_label(node) = None
    THEN [label |-> None, error |-> "Could not extract type label"]
    ELSE [label |-> _managed_node_label(node), error |-> None]

\* handler.py 473-485, label cleaned of the characters around it
LabelOrNodeName(nodes_data, label) ==
    IF label \in _managed_jenkins_node_labels
    THEN [label |-> label, error |-> None]
    ELSE LabelOfNode(_find_node_by_name(nodes_data, label))

RegexResult(why) ==
    IF MatchesWhole(RE_NO_AVAILABLE_NODES, why)
    THEN [matched |-> TRUE, label |-> << "mxnetlinux-cpu" >>]
    ELSE FirstMatch(RE_NO_AVAILABLE_NODE, why)

LabelFromRegexResult(nodes_data, regex_result) ==
    IF ~regex_result.matched THEN [label |-> None, error |-> None]
    ELSE LabelOrNodeName(nodes_data, Join(Strip(regex_result.label)))

\* _label_from_queued_job with the error record it logs: [label, error]
LabelFromQueuedJob(nodes_data, queue_item) ==
    LabelFromRegexResult(nodes_data, RegexResult(queue_item.why))

_label_from_queued_job(nodes_data, queue_item) ==
    LabelFromQueuedJob(nodes_data, queue_item).label

\* queue_duration_s < _minimum_queue_times_sec()[label], in milliseconds
\* (inQueueSince is in milliseconds and the division by 1000 is exact)
NotMatureEnough(queue_item, label, cur_time_s) ==
    cur_time_s * 1000 - queue_item.inQueueSince < _minimum_queue_times_sec[label] * 1000

\* what the loop of determine_scale_up_nodes does with one queue item:
\* the label it found, the error records it logged and whether the item counts
LoopOutcome(label, idle_nodes_per_label, queue_item, cur_time_s) ==
    IF label = None THEN "not related to resource starvation"
    ELSE IF label \notin DOMAIN _minimum_queue_times_sec
    THEN "is not part of MINIMUM_QUEUE_TIMES_SEC"
    ELSE IF NotMatureEnough(queue_item, label, cur_time_s)
    THEN "is not mature enough"
    ELSE IF label \in DOMAIN idle_nodes_per_label /\ idle_nodes_per_label[label] > 0
    THEN "idle nodes available"
    ELSE "counts"

LoopRecord(found, outcome, queue_item) ==
    [label |-> found.label,
     counts |-> outcome = "counts",
     errors |-> (IF found.error # None THEN << << found.error, queue_item.id >> >>
                 ELSE << >>)
                \o (IF outcome \in {"is not part of MINIMUM_QUEUE_TIMES_SEC",
                                    "idle nodes available"}
                    THEN << << outcome, queue_item.id >> >> ELSE << >>)]

LoopStepOf(found, idle_nodes_per_label, queue_item, cur_time_s) ==
    LoopRecord(found, LoopOutcome(found.label, idle_nodes_per_label, queue_item,
                                  cur_time_s), queue_item)

LoopStep(nodes_data, idle_nodes_per_label, queue_item, cur_time_s) ==
    LoopStepOf(LabelFromQueuedJob(nodes_data, queue_item), idle_nodes_per_label,
               queue_item, cur_time_s)

CountsForScaleUp(nodes_data, queue_item, cur_time_s) ==
    LoopStep(nodes_data, _get_idle_nodes_per_label(nodes_data), queue_item,
             cur_time_s).counts

\* dict_required_executors with its insertion order, and the error-level log
\* records of the loop: << message, item id >>
RECURSIVE RequiredExecutors(_, _, _, _, _)
Counted(acc, step) ==
    IF step.counts
    THEN [value |-> IF step.label \in DOMAIN acc.value
                    THEN [acc.value EXCEPT ![step.label] = @ + 1]
                    ELSE acc.value @@ (step.label :> 1),
          order |-> IF step.label \in DOMAIN acc.value THEN acc.order
                    ELSE Append(acc.order, step.label),
          errors |-> acc.errors \o step.errors]
    ELSE [acc EXCEPT !.errors = @ \o step.errors]

RequiredExecutors(nodes_data, idle_nodes_per_label, queue_items, cur_time_s, acc) ==
    IF queue_items = << >> THEN acc
    ELSE RequiredExecutors(nodes_data, idle_nodes_per_label, Tail(queue_items),
             cur_time_s,
             Counted(acc, LoopStep(nodes_data, idle_nodes_per_label,
                                   Head(queue_items), cur_time_s)))

\* mutant of _calculate_nb_required_nodes: ignored labels are not skipped
NbRequiredNodesOfEveryLabel(dict_required_executors) ==
    LET kept == {label \in DOMAIN dict_required_executors :
                   /\ label \in DOMAIN _get_nb_executors_per_label
                   /\ _get_nb_executors_per_label[label] > 0
                   /\ Ceil(dict_required_executors[label],
                           _get_nb_executors_per_label[label]) > 0}
    IN [label \in kept |-> Ceil(dict_required_executors[label],
                                _get_nb_executors_per_label[label])]

\* _calculate_nb_required_nodes: the labels that get an entry, and the entry
_calculate_nb_required_nodes(dict_required_executors) ==
    LET kept == {label \in DOMAIN dict_required_executors :
                   /\ label \notin _ignored_jenkins_node_labels
                   /\ label \in DOMAIN _get_nb_executors_per_label
                   /\ _get_nb_executors_per_label[label] > 0
                   /\ Ceil(dict_required_executors[label],
                           _get_nb_executors_per_label[label]) > 0}
    IN [label \in kept |-> Ceil(dict_required_executors[label],
                                _get_nb_executors_per_label[label])]

\* mutant of ResultingNumber: the unconnected instances are not subtracted
ResultingNumberNoPending(nb, unconnected, label) == Get(nb, label, 0)

\* max(0, label2num_instances.get(label, 0) - len(names))
ResultingNumber(nb, unconnected, label) ==
    Max(0, Get(nb, label, 0) - Len(Get(unconnected, label, << >>)))

\* [value |-> label -> new nodes, order |-> insertion order of the dict,
\*  errors |-> the error-level log records]
Kept(nb, unconnected) ==
    {label \in DOMAIN nb : ResultingNumber(nb, unconnected, label) > 0}

ScaleUpResult(required, nb, unconnected, kept) ==
    [value |-> [label \in kept |-> ResultingNumber(nb, unconnected, label)],
     order |-> SelectSeq(required.order, LAMBDA l : l \in kept),
     errors |-> required.errors]

AfterSubtraction(required, nb, unconnected) ==
    ScaleUpResult(required, nb, unconnected, Kept(nb, unconnected))

NodesRequired(required, unconnected) ==
    AfterSubtraction(required, _calculate_nb_required_nodes(required.value), unconnected)

determine_scale_up_nodes(queue_items, nodes_data, unconnected, cur_time_s) ==
    NodesRequired(RequiredExecutors(nodes_data, _get_idle_nodes_per_label(nodes_data),
                                    queue_items, cur_time_s,
                                    [value |-> EmptyMap, order |-> << >>,
                                     errors |-> << >>]),
                  unconnected)

-----------------------------------------------------------------------------
(* The cap functions on their own: Init draws the arguments, one step      *)
(* applies the function.                                                   *)

passvars == << nodes, instances, queue, now, warm_pool_size, pc, snap,
               instance_uptime, label2num_instances, scale_down_selected,
               retire_after_cap, label2faulty_nodes, orphaned_instances,
               scale_down_nodes, nodes_online, nodes_offline, polled,
               final_list, scale_up_slots, started, items, todo, failed, req,
               delete_outcome, errlog, env_steps, faults >>

\* no pass is running: the variables of the pass hold nothing
NoPass ==
    /\ nodes = EmptyMap /\ instances = EmptyMap /\ queue = << >> /\ now = 0
    /\ warm_pool_size = EmptyMap
    /\ pc = "no_pass" /\ snap = << >> /\ instance_uptime = EmptyMap
    /\ label2num_instances = EmptyMap /\ scale_down_selected = EmptyMap
    /\ retire_after_cap = EmptyMap
    /\ label2faulty_nodes = EmptyMap /\ orphaned_instances = << >>
    /\ scale_down_nodes = EmptyMap /\ nodes_online = << >> /\ nodes_offline = << >>
    /\ polled = EmptyMap /\ final_list = << >> /\ scale_up_slots = EmptyMap
    /\ started = {} /\ items = {} /\ todo = {} /\ failed = None /\ req = EmptyMap
    /\ delete_outcome = EmptyMap /\ errlog = EmptyMap /\ env_steps = 0 /\ faults = 0

NotCalled == [raised |-> "NotCalled", value |-> EmptyMap]
NoArg == [fn |-> None]

CapLabels == {"a", "b", "c"}

\* dicts label -> requested count
DemandMaps == UNION {[D -> 0..MaxCount] : D \in SUBSET CapLabels}

InitUpscale ==
    /\ NoPass
    /\ ret = NotCalled
    /\ \E m \in DemandMaps, limit \in 0..MaxLimit :
         \E order \in Perms(DOMAIN m) :
            arg = [fn |-> "_apply_upscale_limit", limit |-> limit,
                   label2num_instances |-> m, order |-> order]

CallUpscale ==
    /\ arg.fn = "_apply_upscale_limit"
    /\ ret = NotCalled
    /\ ret' = _apply_upscale_limit(arg.limit, arg.label2num_instances, arg.order)
    /\ UNCHANGED << passvars, arg >>

NextUpscale == CallUpscale

SpecUpscale == InitUpscale /\ [][NextUpscale]_vars

\* dicts label -> list of node objects; a node object is (label, index)
NodeObjs(label, k) == [i \in 1..k |-> << label, i >>]
RetireMaps ==
    UNION {{[l \in D |-> NodeObjs(l, len[l])] : len \in [D -> 0..MaxList]} :
           D \in SUBSET CapLabels}

InitDownscale ==
    /\ NoPass
    /\ ret = NotCalled
    /\ \E m \in RetireMaps, limit \in 0..MaxLimit :
         \E shuffeled \in Perms(DOMAIN m) :
            arg = [fn |-> "_apply_downscale_limit", limit |-> limit,
                   scale_down_nodes |-> m, shuffeled |-> shuffeled]

CallDownscale ==
    /\ arg.fn = "_apply_downscale_limit"
    /\ ret = NotCalled
    /\ ret' = [raised |-> None,
               value |-> _apply_downscale_limit(arg.limit, arg.scale_down_nodes,
                                                arg.shuffeled)]
    /\ UNCHANGED << passvars, arg >>

NextDownscale == CallDownscale

SpecDownscale == InitDownscale /\ [][NextDownscale]_vars

-----------------------------------------------------------------------------
(* The fleet one pass runs against                                         *)

\* the order in which master and provider list what they hold
NameOrder == << "master", "a1", "a2", "w1", "reserved1", "new1", "new2" >>
Names == SeqToSet(NameOrder)
\* the names _create_jenkins_node_slots draws for new slots
NewNames == << "new1", "new2" >>

LINUX_ARCH == "Linux (amd64)"
WINDOWS_ARCH == "Windows NT (unknown) (amd64)"
USER_CAUSE == "hudson.slaves.OfflineCause$UserCause"
MONITOR_CAUSE == "hudson.node_monitors.DiskSpaceMonitorDescriptor$DiskSpace"

\* one entry of jenkins.get_nodes()._data['computer']
Node(name, label, offline, temporarilyOffline, idle, cause, reason, arch) ==
    [exists |-> TRUE, displayName |-> name, assignedLabels |-> {name, label},
     offline |-> offline, temporarilyOffline |-> temporarilyOffline, idle |-> idle,
     offlineCauseClass |-> cause, offlineCauseReason |-> reason,
     architecture |-> arch]
NoSlot(name) == [exists |-> FALSE, displayName |-> name]

\* one managed pending/running instance with its tags and its uptime
Instance(name, label, uptime) ==
    [exists |-> TRUE, Name |-> name, label |-> label, uptime |-> uptime]
NoInstance(name) == [exists |-> FALSE, Name |-> name]

OnlineIdle(n, l, arch) == Node(n, l, FALSE, FALSE, TRUE, None, "", arch)
OnlineBusy(n, l, arch) == Node(n, l, FALSE, FALSE, FALSE, None, "", arch)
Unconnected(n, l) == Node(n, l, TRUE, FALSE, TRUE, None, "", None)
DownscaleMarked(n, l, idle, arch) ==
    Node(n, l, TRUE, TRUE, idle, USER_CAUSE, DOWNSCALE_REASON, arch)
MonitorOffline(n, l, arch) ==
    Node(n, l, TRUE, TRUE, TRUE, MONITOR_CAUSE, "Disk space is too low", arch)

\* what the pass can find under one name: << slot, instance >>
FleetA1 ==
    LET n == "a1" l == LINUX
    IN {<< NoSlot(n), NoInstance(n) >>,
        << NoSlot(n), Instance(n, l, 100) >>,
        << OnlineIdle(n, l, LINUX_ARCH), Instance(n, l, 4000) >>,
        << OnlineIdle(n, l, LINUX_ARCH), NoInstance(n) >>,
        << OnlineIdle(n, l, None), Instance(n, l, 100) >>,
        << OnlineBusy(n, l, LINUX_ARCH), Instance(n, l, 4000) >>,
        << Unconnected(n, l), Instance(n, l, 100) >>,
        << Unconnected(n, l), Instance(n, l, 4000) >>,
        << DownscaleMarked(n, l, TRUE, LINUX_ARCH), Instance(n, l, 4000) >>,
        << MonitorOffline(n, l, LINUX_ARCH), Instance(n, l, 4000) >>}

FleetA2 ==
    LET n == "a2" l == LINUX
    IN {<< NoSlot(n), NoInstance(n) >>,
        << OnlineIdle(n, l, LINUX_ARCH), Instance(n, l, 4000) >>,
        << OnlineIdle(n, l, LINUX_ARCH), NoInstance(n) >>,
        << OnlineBusy(n, l, LINUX_ARCH), Instance(n, l, 4000) >>,
        << DownscaleMarked(n, l, FALSE, LINUX_ARCH), Instance(n, l, 4000) >>}

\* 3299 = 54 min 59 s, 3300 = 55 min, 3510 = 58 min 30 s, 3540 = 59 min
WindowsUptimes == {3299, 3300, 3510, 3540}

FleetW1 ==
    LET n == "w1" l == WINDOWS
    IN {<< NoSlot(n), NoInstance(n) >>,
        << OnlineIdle(n, l, WINDOWS_ARCH), NoInstance(n) >>,
        << Unconnected(n, l), Instance(n, l, 100) >>,
        << Unconnected(n, l), Instance(n, l, 3700) >>,
        << MonitorOffline(n, l, WINDOWS_ARCH), Instance(n, l, 3700) >>}
    \cup {<< OnlineIdle(n, l, WINDOWS_ARCH), Instance(n, l, u) >> : u \in WindowsUptimes}

\* the text of a queue reason: the whole-queue reason, the first reason of
\* RE_NO_AVAILABLE_NODE with the label in it, or a reason of another kind
Reason(re, label) ==
    IF re = "RE_NO_AVAILABLE_NODES" THEN RE_NO_AVAILABLE_NODES
    ELSE IF re = "RE_NO_AVAILABLE_NODE"
    THEN RE_NO_AVAILABLE_NODE[1].prefix \o << label >> \o RE_NO_AVAILABLE_NODE[1].suffix
    ELSE Words(<< "Finished", "waiting" >>)

QueueItem(id, re, label, inQueueSince) ==
    [id |-> id, why |-> Reason(re, label), inQueueSince |-> inQueueSince]

\* the build queues of the model; the pass runs at second 100
Queues ==
    {<< >>,
     << QueueItem(1, "RE_NO_AVAILABLE_NODE", LINUX, 0) >>,
     << QueueItem(1, "RE_NO_AVAILABLE_NODE", WINDOWS, 0),
        QueueItem(2, "RE_NO_AVAILABLE_NODES", None, 0) >>}

WarmPools == {(LINUX :> 1) @@ (WINDOWS :> 0), (LINUX :> 2) @@ (WINDOWS :> 0)}

RequestKinds == {"set_offline", "poll", "set_online", "terminate",
                 "terminate_orphaned", "delete", "create_slot", "run_instances"}

Init ==
    /\ \E a1 \in FleetA1, a2 \in FleetA2, w1 \in FleetW1 :
         /\ nodes = ("master" :> Node("master", "master", FALSE, FALSE, TRUE, None, "",
                                      LINUX_ARCH))
                    @@ ("a1" :> a1[1]) @@ ("a2" :> a2[1]) @@ ("w1" :> w1[1])
                    @@ [n \in Names |-> NoSlot(n)]
         /\ instances = ("a1" :> a1[2]) @@ ("a2" :> a2[2]) @@ ("w1" :> w1[2])
                        @@ [n \in Names |-> NoInstance(n)]
    /\ queue \in Queues
    /\ warm_pool_size \in WarmPools
    /\ now = 100
    /\ pc = "start" /\ snap = << >> /\ instance_uptime = EmptyMap
    /\ label2num_instances = EmptyMap /\ scale_down_selected = EmptyMap
    /\ retire_after_cap = EmptyMap
    /\ label2faulty_nodes = EmptyMap /\ orphaned_instances = << >>
    /\ scale_down_nodes = EmptyMap /\ nodes_online = << >> /\ nodes_offline = << >>
    /\ polled = EmptyMap /\ final_list = << >> /\ scale_up_slots = EmptyMap
    /\ started = {} /\ items = {} /\ todo = {} /\ failed = None
    /\ req = [k \in RequestKinds |-> {}]
    /\ delete_outcome = EmptyMap /\ errlog = EmptyMap /\ env_steps = 0 /\ faults = 0
    /\ arg = NoArg /\ ret = NotCalled

-----------------------------------------------------------------------------
(* A pass over a master that lists executors the configuration names as    *)
(* ignored (by label or by display name), or no executor at all: the same  *)
(* steps as Spec, from other fleets and queues.                            *)

\* an executor with an ignored label; the autoscaler launched no instance
\* for it
FleetIgnoredLabel ==
    LET n == "a2" l == IGNORED
    IN {<< NoSlot(n), NoInstance(n) >>,
        << OnlineIdle(n, l, LINUX_ARCH), NoInstance(n) >>,
        << OnlineBusy(n, l, LINUX_ARCH), NoInstance(n) >>,
        << MonitorOffline(n, l, LINUX_ARCH), NoInstance(n) >>}

\* an executor whose display name is in IGNORED_JENKINS_NODE_NAMES and that
\* carries a managed label
FleetIgnoredName ==
    LET n == "reserved1" l == LINUX
    IN {<< NoSlot(n), NoInstance(n) >>,
        << OnlineIdle(n, l, LINUX_ARCH), Instance(n, l, 4000) >>,
        << OnlineBusy(n, l, LINUX_ARCH), NoInstance(n) >>}

FleetManaged ==
    LET n == "a1" l == LINUX
    IN {<< NoSlot(n), NoInstance(n) >>,
        << NoSlot(n), Instance(n, l, 100) >>,
        << OnlineIdle(n, l, LINUX_ARCH), Instance(n, l, 4000) >>,
        << Unconnected(n, l), Instance(n, l, 100) >>,
        << Unconnected(n, l), NoInstance(n) >>,
        << DownscaleMarked(n, l, TRUE, LINUX_ARCH), Instance(n, l, 4000) >>}

\* the built-in node of the master, listed or not
FleetMaster ==
    {NoSlot("master"),
     Node("master", "master", FALSE, FALSE, TRUE, None, "", LINUX_ARCH)}

\* the pass runs at second 100: an item queued at 80 s is 20 s old
BootstrapQueues ==
    {<< >>,
     << QueueItem(1, "RE_NO_AVAILABLE_NODES", None, 0) >>,
     << QueueItem(1, "RE_NO_AVAILABLE_NODES", None, 80000) >>,
     << QueueItem(1, "RE_NO_AVAILABLE_NODE", LINUX, 0) >>}

InitIgnored ==
    /\ \E master \in FleetMaster, a1 \in FleetManaged, a2 \in FleetIgnoredLabel,
          reserved1 \in FleetIgnoredName :
         /\ nodes = ("master" :> master) @@ ("a1" :> a1[1]) @@ ("a2" :> a2[1])
                    @@ ("reserved1" :> reserved1[1]) @@ [n \in Names |-> NoSlot(n)]
         /\ instances = ("a1" :> a1[2]) @@ ("a2" :> a2[2])
                        @@ ("reserved1" :> reserved1[2])
                        @@ [n \in Names |-> NoInstance(n)]
    /\ queue \in BootstrapQueues
    /\ warm_pool_size \in WarmPools
    /\ now = 100
    /\ pc = "start" /\ snap = << >> /\ instance_uptime = EmptyMap
    /\ label2num_instances = EmptyMap /\ scale_down_selected = EmptyMap
    /\ retire_after_cap = EmptyMap
    /\ label2faulty_nodes = EmptyMap /\ orphaned_instances = << >>
    /\ scale_down_nodes = EmptyMap /\ nodes_online = << >> /\ nodes_offline = << >>
    /\ polled = EmptyMap /\ final_list = << >> /\ scale_up_slots = EmptyMap
    /\ started = {} /\ items = {} /\ todo = {} /\ failed = None
    /\ req = [k \in RequestKinds |-> {}]
    /\ delete_outcome = EmptyMap /\ errlog = EmptyMap /\ env_steps = 0 /\ faults = 0
    /\ arg = NoArg /\ ret = NotCalled

-----------------------------------------------------------------------------
(* _label_from_queued_job on its own: Init draws a queue reason and the    *)
(* executor list, one step applies the function.                           *)

\* the queue reasons the master words, with x in the place of the label
\* (QUEUE_WHY_FORMULATIONS)
Formulation(t, x) ==
    CASE t = 1 -> Words(<< "There", "are", "no", "nodes", "with", "the", "label" >>)
                    \o << " ", LSQ >> \o x \o << RSQ >>
      [] t = 2 -> Words(<< "Waiting", "for", "next", "available", "executor", "on" >>)
                    \o << " " >> \o x
      [] t = 3 -> Words(<< "All", "nodes", "of", "label" >>) \o << " ", LSQ >> \o x
                    \o << RSQ, " " >> \o Words(<< "are", "offline" >>)
      [] t = 4 -> Words(<< "Waiting", "for", "next", "available", "executor", "on" >>)
                    \o << " ", LSQ >> \o x \o << RSQ >>
      [] t = 5 -> << "mxnetlinux-cpu_0123456", " ", "doesn", RSQ, "t", " " >>
                    \o Words(<< "have", "label" >>) \o << " " >> \o x
                    \o << ";", " ", "node2", " ", "doesn", RSQ, "t", " " >>
                    \o Words(<< "have", "label", "blabla" >>)
                    \o << ";", " " >> \o Words(<< "node3", "is", "offline" >>)
      [] t = 6 -> x \o << " " >> \o Words(<< "is", "offline" >>)
      [] t = 7 -> Words(<< "This", "is", "a", "random", "queue", "reason", "with", "a" >>)
                    \o << " " >> \o x \o << " ", "label" >>
Formulations == 1..7
\* the formulations one of the patterns accepts
AcceptedFormulations == 1..6

\* the label as it is, or between curly quotes
Quoted(label, quoted) == IF quoted THEN << LSQ, label, RSQ >> ELSE << label >>

\* what a queue reason can name
CitedNames == {LINUX, WINDOWS, IGNORED, RETIRED, "something123", "a1", "a2"}

\* the executor lists handed to _label_from_queued_job
LabelNodeLists ==
    {<< >>,
     << OnlineBusy("a1", LINUX, LINUX_ARCH) >>,
     << OnlineBusy("a1", LINUX, LINUX_ARCH), OnlineBusy("a2", RETIRED, WINDOWS_ARCH) >>,
     << Node("a1", "a1", FALSE, FALSE, TRUE, None, "", LINUX_ARCH) >>}

InitLabel ==
    /\ NoPass
    /\ ret = NotCalled
    /\ \E t \in Formulations, label \in CitedNames, quoted \in BOOLEAN,
          nodes_data \in LabelNodeLists :
         arg = [fn |-> "_label_from_queued_job", formulation |-> t, label |-> label,
                quoted |-> quoted, nodes |-> nodes_data,
                queue_item |-> [id |-> 0, why |-> Formulation(t, Quoted(label, quoted)),
                                inQueueSince |-> 0]]

CallLabel ==
    /\ arg.fn = "_label_from_queued_job"
    /\ ret = NotCalled
    /\ ret' = [raised |-> None,
               value |-> _label_from_queued_job(arg.nodes, arg.queue_item)]
    /\ UNCHANGED << passvars, arg >>

NextLabel == CallLabel

SpecLabel == InitLabel /\ [][NextLabel]_vars

-----------------------------------------------------------------------------
(* determine_scale_up_nodes on its own                                     *)

\* the kinds of queue items: reason and time of entry (the call is made at
\* second 100, so 70000 is 30 s ago and 70500 is 29.5 s ago)
DemandItemKinds ==
    {[why |-> Formulation(1, << LINUX >>), inQueueSince |-> 70000],
     [why |-> Formulation(2, << LINUX >>), inQueueSince |-> 70500],
     [why |-> Formulation(4, << WINDOWS >>), inQueueSince |-> 0],
     [why |-> Formulation(6, << "a2" >>), inQueueSince |-> 0],
     [why |-> Formulation(1, << RETIRED >>), inQueueSince |-> 0]}

\* the queues of up to MaxQueue items; the id of an item is its position
DemandQueues ==
    UNION {{[i \in 1..len |-> [id |-> i, why |-> q[i].why,
                               inQueueSince |-> q[i].inQueueSince]] :
              q \in [1..len -> DemandItemKinds]} : len \in 0..MaxQueue}

DemandNodeLists ==
    {a1 \o a2 :
       a1 \in {<< >>, << OnlineIdle("a1", LINUX, LINUX_ARCH) >>},
       a2 \in {<< >>, << OnlineIdle("a2", WINDOWS, WINDOWS_ARCH) >>,
               << OnlineBusy("a2", RETIRED, WINDOWS_ARCH) >>,
               << OnlineIdle("a2", IGNORED, LINUX_ARCH) >>,
               << Unconnected("a2", LINUX) >>}}

\* label -> names of the instances that are starting or have no executor
DemandUnconnected ==
    {EmptyMap,
     (LINUX :> << "u1" >>) @@ (RETIRED :> << "u4" >>),
     (LINUX :> << "u1", "u2" >>) @@ (WINDOWS :> << "u3" >>)}

InitDemand ==
    /\ NoPass
    /\ ret = NotCalled
    /\ \E queue_items \in DemandQueues, nodes_data \in DemandNodeLists,
          unconnected \in DemandUnconnected :
         arg = [fn |-> "determine_scale_up_nodes", queue_items |-> queue_items,
                nodes |-> nodes_data, unconnected |-> unconnected, cur_time_s |-> 100]

CallDemand ==
    /\ arg.fn = "determine_scale_up_nodes"
    /\ ret = NotCalled
    /\ LET demand == determine_scale_up_nodes(arg.queue_items, arg.nodes,
                                              arg.unconnected, arg.cur_time_s)
       IN ret' = [raised |-> None, value |-> demand.value, errors |-> demand.errors]
    /\ UNCHANGED << passvars, arg >>

NextDemand == CallDemand

SpecDemand == InitDemand /\ [][NextDemand]_vars

-----------------------------------------------------------------------------
(* Events of the outside world while the pass runs.  An event is taken     *)
(* between two steps of the pass, at the positions where the pass can tell *)
(* it from the same event taken one step earlier or later.                 *)

config == << queue, now, warm_pool_size >>
analysis == << snap, instance_uptime, label2num_instances, scale_down_selected,
              retire_after_cap, label2faulty_nodes, orphaned_instances,
              scale_down_nodes >>
retirees == << nodes_online, nodes_offline >>
fanout == << items, todo, failed >>
fn == << arg, ret >>

\* the positions between two steps of the pass, no request of a fan-out sent
EnvMayAct(positions) ==
    /\ pc \in positions
    /\ todo = items /\ failed = None
    /\ env_steps < MaxEnvSteps

\* the master schedules a build on an executor that accepts builds
BuildStarts(n) ==
    /\ EnvMayAct({"mark_offline", "terminate"})
    /\ nodes[n].exists /\ ~nodes[n].offline /\ nodes[n].idle
    /\ nodes' = [nodes EXCEPT ![n].idle = FALSE]
    /\ env_steps' = env_steps + 1
    /\ UNCHANGED << instances, config, pc, analysis, retirees, polled, final_list,
                    scale_up_slots, started, fanout, req, delete_outcome, errlog,
                    faults, fn >>

BroughtOnline(node) ==
    [node EXCEPT !.offline = FALSE, !.temporarilyOffline = FALSE,
                 !.offlineCauseClass = None, !.offlineCauseReason = ""]

\* an administrator brings a temporarily-offline executor back online
AdminOnline(n) ==
    /\ EnvMayAct({"scale_down", "poll", "delete"})
    /\ nodes[n].exists /\ nodes[n].temporarilyOffline
    /\ nodes' = [nodes EXCEPT ![n] = BroughtOnline(@)]
    /\ env_steps' = env_steps + 1
    /\ UNCHANGED << instances, config, pc, analysis, retirees, polled, final_list,
                    scale_up_slots, started, fanout, req, delete_outcome, errlog,
                    faults, fn >>

\* somebody else deletes the slot
SlotDeleted(n) ==
    /\ EnvMayAct({"scale_down", "mark_offline", "poll", "delete"})
    /\ nodes[n].exists /\ n \notin _ignored_jenkins_node_names
    /\ nodes' = [nodes EXCEPT ![n] = NoSlot(n)]
    /\ env_steps' = env_steps + 1
    /\ UNCHANGED << instances, config, pc, analysis, retirees, polled, final_list,
                    scale_up_slots, started, fanout, req, delete_outcome, errlog,
                    faults, fn >>

-----------------------------------------------------------------------------
(* scaling_handler: the try block around scaling()                         *)

ErrLogAdd(msg, n) ==
    IF << msg, n >> \in DOMAIN errlog
    THEN [errlog EXCEPT ![<< msg, n >>] = @ + 1]
    ELSE (<< msg, n >> :> 1) @@ errlog

\* the exceptions a step of the pass raises; each class derives from Exception
ExceptionClasses ==
    {"ConnectionError", "KeyError", "ValueError", "AssertionError", "HTTPError 404",
     "HTTPError 5xx", "ClientError"}

\* mutant of CaughtByHandler: the clause names the HTTP errors only
CatchesHTTPErrorOnly(exception) == exception \in {"HTTPError 404", "HTTPError 5xx"}

\* except Exception:
CaughtByHandler(exception) == exception \in ExceptionClasses

\* where the pass ends when the exception leaves scaling(): the handler has
\* logged it and returns, or the exception goes on to the invoker
Raised(exception) == IF CaughtByHandler(exception) THEN "aborted" ELSE "escaped"

\* logging.fatal('Unexpected exception') of the except clause
FatalLogged(exception) ==
    IF CaughtByHandler(exception) THEN ErrLogAdd("Unexpected exception", "fatal")
    ELSE errlog

\* handler.py 1504-1513: what follows execute_scale_down_logic, and what
\* follows the termination of the orphaned instances
\* mutant of AfterScaleDown: the orphaned instances are left for later
StraightToScaleUp == "scale_up"
AfterScaleDown == "orphans"
AfterOrphans == "scale_up"

-----------------------------------------------------------------------------
(* scaling(): fetch, analyze, cap, merge                                   *)

\* jenkins.get_nodes(), the instance listing or jenkins.get_queue() raises
FetchRaises ==
    /\ pc = "start"
    /\ faults < MaxFaults
    /\ faults' = faults + 1
    /\ failed' = "ConnectionError"
    /\ pc' = Raised(failed')
    /\ errlog' = FatalLogged(failed')
    /\ UNCHANGED << nodes, instances, config, analysis, retirees, polled, final_list,
                    scale_up_slots, started, items, todo, req, delete_outcome,
                    env_steps, fn >>

\* what the master and the provider list
NodesData ==
    SelectSeq([i \in 1..Len(NameOrder) |-> nodes[NameOrder[i]]], LAMBDA nd : nd.exists)
InstanceList ==
    SelectSeq([i \in 1..Len(NameOrder) |-> instances[NameOrder[i]]],
              LAMBDA inst : inst.exists)

\* the outcomes of the analysis: determine_scale_down_nodes draws the warm-pool
\* pops, _apply_downscale_limit draws the label order
Analyses ==
    LET uptime == _instance_uptime(InstanceList)
        unconnected == _unconnected_instances(NodesData, InstanceList)
        demand == determine_scale_up_nodes(queue, NodesData, unconnected, now)
        detected == _determine_faulty_nodes(NodesData, unconnected, uptime)
        upscale == _apply_upscale_limit(NUM_UPSCALES_PER_ROUND, demand.value, demand.order)
    IN UNION {{[raised |-> IF UnconnectedRaises(NodesData, InstanceList, uptime)
                           THEN "KeyError"
                           ELSE IF sd.raised # None THEN sd.raised
                           ELSE upscale.raised,
                uptime |-> uptime, upscale |-> upscale.value, selected |-> sd.value,
                capped |-> _apply_downscale_limit(NUM_DOWNSCALES_PER_ROUND, sd.value,
                                                  shuffeled),
                faulty |-> detected.faulty, orphaned |-> detected.orphaned] :
                 shuffeled \in Perms(DOMAIN sd.value)} :
              sd \in determine_scale_down_nodes(NodesData, uptime)}

\* handler.py 1462-1502
Analyze ==
    /\ pc = "start"
    /\ \E a \in Analyses :
         /\ a.raised = None
         /\ snap' = NodesData
         /\ instance_uptime' = a.uptime
         /\ label2num_instances' = a.upscale
         /\ scale_down_selected' = a.selected
         /\ retire_after_cap' = a.capped
         /\ label2faulty_nodes' = a.faulty
         /\ orphaned_instances' = a.orphaned
         /\ scale_down_nodes' = _merge_dicts_nested_lists(a.capped, a.faulty)
    /\ pc' = "scale_down"
    /\ UNCHANGED << nodes, instances, config, retirees, polled, final_list,
                    scale_up_slots, started, fanout, req, delete_outcome, errlog,
                    faults, env_steps, fn >>

\* an analyzer or a cap raises: the exception leaves scaling()
AnalyzeRaises ==
    /\ pc = "start"
    /\ \E a \in Analyses :
         /\ a.raised # None
         /\ failed' = a.raised
    /\ snap' = NodesData
    /\ pc' = Raised(failed')
    /\ errlog' = FatalLogged(failed')
    /\ UNCHANGED << nodes, instances, config, instance_uptime, label2num_instances,
                    scale_down_selected, retire_after_cap, label2faulty_nodes,
                    orphaned_instances, scale_down_nodes, retirees, polled,
                    final_list, scale_up_slots, started, items, todo, req,
                    delete_outcome, faults, env_steps, fn >>

-----------------------------------------------------------------------------
(* execute_scale_down_logic                                                *)

RECURSIVE Flatten(_, _)
Flatten(m, keys) ==
    IF keys = << >> THEN << >> ELSE m[Head(keys)] \o Flatten(m, Tail(keys))

\* the keys of a dict filled from a list: first occurrences, in order
RECURSIVE Dedup(_)
Dedup(s) ==
    IF s = << >> THEN << >>
    ELSE LET front == Dedup(SubSeq(s, 1, Len(s) - 1))
         IN IF s[Len(s)] \in SeqToSet(front) THEN front ELSE Append(front, s[Len(s)])

\* _convert_to_jenkins_nodes: the names whose node object could be built;
\* lost are the names whose construction failed for a transient reason
_convert_to_jenkins_nodes(names, lost) ==
    Dedup(SelectSeq(names, LAMBDA n : nodes[n].exists /\ n \notin lost))

\* the sets of names a conversion can lose to transient failures
Losses(names) ==
    {lost \in SUBSET {n \in SeqToSet(names) : nodes[n].exists} :
        Cardinality(lost) <= MaxFaults - faults}

NoScaleDown ==
    /\ pc = "scale_down"
    /\ DOMAIN scale_down_nodes = {}
    /\ pc' = AfterScaleDown
    /\ UNCHANGED << nodes, instances, config, analysis, retirees, polled, final_list,
                    scale_up_slots, started, fanout, req, delete_outcome, errlog,
                    faults, env_steps, fn >>

\* handler.py 142-145, up to the first request of _mark_nodes_offline
ConvertRetirees ==
    /\ pc = "scale_down"
    /\ DOMAIN scale_down_nodes # {}
    /\ LET scale_down_node_names == Flatten(scale_down_nodes, KeysInOrder(scale_down_nodes))
       IN \E lost \in Losses(scale_down_node_names) :
            LET scale_down_nodes_list == _convert_to_jenkins_nodes(scale_down_node_names, lost)
            IN /\ nodes_online' = SelectSeq(scale_down_nodes_list,
                                            LAMBDA n : ~nodes[n].offline)
               /\ nodes_offline' = SelectSeq(scale_down_nodes_list,
                                             LAMBDA n : nodes[n].offline)
               /\ faults' = faults + Cardinality(lost)
    /\ items' = SeqToSet(nodes_online')
    /\ todo' = SeqToSet(nodes_online')
    /\ pc' = "mark_offline"
    /\ UNCHANGED << nodes, instances, config, analysis, polled, final_list,
                    scale_up_slots, started, failed, req, delete_outcome, errlog,
                    env_steps, fn >>

ReqAdd(kind, names) == [req EXCEPT ![kind] = @ \cup names]

TakenOffline(node, reason) ==
    [node EXCEPT !.offline = TRUE, !.temporarilyOffline = TRUE,
                 !.offlineCauseClass = USER_CAUSE, !.offlineCauseReason = reason]

\* node_obj.set_offline(DOWNSCALE_REASON), one request of _mark_nodes_offline
MarkOffline(n) ==
    /\ pc = "mark_offline"
    /\ n \in todo /\ failed = None
    /\ todo' = todo \ {n}
    /\ req' = ReqAdd("set_offline", {n})
    /\ IF nodes[n].exists
       THEN /\ nodes' = [nodes EXCEPT ![n] = TakenOffline(@, DOWNSCALE_REASON)]
            /\ UNCHANGED failed
       ELSE /\ failed' = "HTTPError 404"
            /\ UNCHANGED nodes
    /\ UNCHANGED << instances, config, pc, analysis, retirees, polled, final_list,
                    scale_up_slots, started, items, delete_outcome, errlog, faults,
                    env_steps, fn >>

\* mutant of MarkOfflineReturns: the call returns while requests are left
MarkOfflineReturnsEarly(remaining) == TRUE

\* Parallel(...)(delayed(node_obj.set_offline)(reason) ...) returns when
\* every request was made
MarkOfflineReturns(remaining) == remaining = {}

MarkOfflineDone ==
    /\ pc = "mark_offline"
    /\ MarkOfflineReturns(todo) /\ failed = None
    /\ items' = SeqToSet(nodes_online)
    /\ todo' = SeqToSet(nodes_online)
    /\ pc' = "poll"
    /\ UNCHANGED << nodes, instances, config, analysis, retirees, polled, final_list,
                    scale_up_slots, started, failed, req, delete_outcome, errlog,
                    faults, env_steps, fn >>

\* node_obj.poll(), one request of _partition_non_idle; is_idle() and
\* is_online() then read what this poll stored
Poll(n) ==
    /\ pc = "poll"
    /\ n \in todo /\ failed = None
    /\ todo' = todo \ {n}
    /\ req' = ReqAdd("poll", {n})
    /\ IF nodes[n].exists
       THEN /\ polled' = (n :> [idle |-> nodes[n].idle, online |-> ~nodes[n].offline])
                         @@ polled
            /\ UNCHANGED failed
       ELSE /\ failed' = "HTTPError 404"
            /\ UNCHANGED polled
    /\ UNCHANGED << nodes, instances, config, pc, analysis, retirees, final_list,
                    scale_up_slots, started, items, delete_outcome, errlog, faults,
                    env_steps, fn >>

\* mutant of _partition_non_idle: what the poll saw is not looked at
PartitionKeepsAll(node_objs, seen) ==
    [raised |-> None, new_node_objs |-> node_objs, non_idle_node_objs |-> << >>]

\* the two list comprehensions and the assert of _partition_non_idle
_partition_non_idle(node_objs, seen) ==
    LET new_node_objs ==
            SelectSeq(node_objs, LAMBDA n : seen[n].idle /\ ~seen[n].online)
        non_idle_node_objs ==
            SelectSeq(node_objs, LAMBDA n : ~seen[n].idle \/ seen[n].online)
    IN [raised |-> IF Len(new_node_objs) + Len(non_idle_node_objs) = Len(node_objs)
                   THEN None ELSE "AssertionError",
        new_node_objs |-> new_node_objs,
        non_idle_node_objs |-> non_idle_node_objs]

PollDone ==
    /\ pc = "poll"
    /\ todo = {} /\ failed = None
    /\ LET r == _partition_non_idle(nodes_online, polled)
       IN /\ final_list' = r.new_node_objs
          /\ items' = SeqToSet(r.non_idle_node_objs)
          /\ todo' = SeqToSet(r.non_idle_node_objs)
          /\ failed' = r.raised
          /\ pc' = IF r.raised = None THEN "mark_online" ELSE Raised(r.raised)
          /\ errlog' = IF r.raised = None THEN errlog ELSE FatalLogged(r.raised)
    /\ UNCHANGED << nodes, instances, config, analysis, retirees, polled,
                    scale_up_slots, started, req, delete_outcome, faults,
                    env_steps, fn >>

\* node_obj.set_online(), one request of _mark_nodes_online
MarkOnline(n) ==
    /\ pc = "mark_online"
    /\ n \in todo /\ failed = None
    /\ todo' = todo \ {n}
    /\ req' = ReqAdd("set_online", {n})
    /\ IF nodes[n].exists
       THEN /\ nodes' = [nodes EXCEPT ![n] = IF @.temporarilyOffline
                                             THEN BroughtOnline(@) ELSE @]
            /\ UNCHANGED failed
       ELSE /\ failed' = "HTTPError 404"
            /\ UNCHANGED nodes
    /\ UNCHANGED << instances, config, pc, analysis, retirees, polled, final_list,
                    scale_up_slots, started, items, delete_outcome, errlog, faults,
                    env_steps, fn >>

\* mutant of FinalScaleDownNodesList: the retirees as they were before the poll
FinalListUnfiltered(new_node_objs, online, offline) == online \o offline

\* final_scale_down_nodes_list.extend(nodes_offline)
FinalScaleDownNodesList(new_node_objs, online, offline) == new_node_objs \o offline

MarkOnlineDone ==
    /\ pc = "mark_online"
    /\ todo = {} /\ failed = None
    /\ final_list' = FinalScaleDownNodesList(final_list, nodes_online, nodes_offline)
    /\ items' = {}
    /\ pc' = "terminate"
    /\ UNCHANGED << nodes, instances, config, analysis, retirees, polled,
                    scale_up_slots, started, todo, failed, req, delete_outcome,
                    errlog, faults, env_steps, fn >>

\* a request of a master fan-out fails for a transient reason and raises
RequestFails(n) ==
    /\ pc \in {"mark_offline", "poll", "mark_online", "create_slot"}
    /\ n \in todo /\ failed = None
    /\ faults < MaxFaults
    /\ todo' = todo \ {n}
    /\ failed' = "HTTPError 5xx"
    /\ faults' = faults + 1
    /\ UNCHANGED << nodes, instances, config, pc, analysis, retirees, polled,
                    final_list, scale_up_slots, started, items, req, delete_outcome,
                    errlog, env_steps, fn >>

\* Parallel re-raises the exception of a request.  The requests that were
\* sent are those taken before the failing one, the others are dropped.
\* Nothing between here and scaling_handler catches the exception.
FanOutRaises ==
    /\ pc \in {"mark_offline", "poll", "mark_online", "delete", "create_slot", "rollback"}
    /\ failed # None
    /\ pc' = Raised(failed)
    /\ errlog' = FatalLogged(failed)
    /\ UNCHANGED << nodes, instances, config, analysis, retirees, polled, final_list,
                    scale_up_slots, started, fanout, req, delete_outcome,
                    faults, env_steps, fn >>

\* mutant of chunks: the list is handed over in one piece
ChunksUnsplit(source_list, chunk_size) ==
    IF source_list = << >> THEN << >> ELSE << source_list >>

\* chunks(source_list, chunk_size)
RECURSIVE chunks(_, _)
chunks(source_list, chunk_size) ==
    LET size == Max(1, chunk_size)
    IN IF source_list = << >> THEN << >>
       ELSE IF Len(source_list) <= size THEN << source_list >>
       ELSE << SubSeq(source_list, 1, size) >>
            \o chunks(SubSeq(source_list, size + 1, Len(source_list)), chunk_size)

\* the provider after the terminate calls for the first k chunks
RECURSIVE Terminated(_, _, _)
Terminated(insts, calls, k) ==
    IF k = 0 THEN insts
    ELSE LET before == Terminated(insts, calls, k - 1)
         IN [n \in DOMAIN before |->
               IF n \in SeqToSet(calls[k]) THEN NoInstance(n) ELSE before[n]]

\* the names the first k terminate calls were sent for
RECURSIVE Requested(_, _)
Requested(calls, k) ==
    IF k = 0 THEN {} ELSE SeqToSet(calls[k]) \cup Requested(calls, k - 1)

\* handler.py 160-172: _terminate_ec2_instances, then the second conversion
TerminateRetirees ==
    /\ pc = "terminate"
    /\ LET calls == chunks(final_list, EC2_FILTER_CHUNK_SIZE)
       IN /\ instances' = Terminated(instances, calls, Len(calls))
          /\ req' = ReqAdd("terminate", Requested(calls, Len(calls)))
    /\ \E lost \in Losses(final_list) :
         /\ items' = SeqToSet(_convert_to_jenkins_nodes(final_list, lost))
         /\ todo' = items'
         /\ faults' = faults + Cardinality(lost)
    /\ pc' = "delete"
    /\ UNCHANGED << nodes, config, analysis, retirees, polled, final_list,
                    scale_up_slots, started, failed, delete_outcome, errlog,
                    env_steps, fn >>

\* handler.py 1510
TerminateOrphaned ==
    /\ pc = "orphans"
    /\ LET calls == chunks(orphaned_instances, EC2_FILTER_CHUNK_SIZE)
       IN /\ instances' = Terminated(instances, calls, Len(calls))
          /\ req' = ReqAdd("terminate_orphaned", Requested(calls, Len(calls)))
    /\ pc' = AfterOrphans
    /\ UNCHANGED << nodes, config, analysis, retirees, polled, final_list,
                    scale_up_slots, started, fanout, delete_outcome, errlog, faults,
                    env_steps, fn >>

\* a terminate call of the provider raises: the calls before it were made
TerminateRaises ==
    /\ pc \in {"terminate", "orphans"}
    /\ faults < MaxFaults
    /\ LET calls == chunks(IF pc = "terminate" THEN final_list ELSE orphaned_instances,
                           EC2_FILTER_CHUNK_SIZE)
           kind == IF pc = "terminate" THEN "terminate" ELSE "terminate_orphaned"
       IN \E k \in 1..Len(calls) :
            /\ instances' = Terminated(instances, calls, k - 1)
            /\ req' = ReqAdd(kind, Requested(calls, k))
    /\ failed' = "ClientError"
    /\ faults' = faults + 1
    /\ pc' = Raised(failed')
    /\ errlog' = FatalLogged(failed')
    /\ UNCHANGED << nodes, config, analysis, retirees, polled, final_list,
                    scale_up_slots, started, items, todo, delete_outcome,
                    env_steps, fn >>

\* mutant of StillConnected: the connection state is not checked
NeverConnected(node) == FALSE

\* node_obj.is_online(), read from the master when the deletion is attempted
StillConnected(node) == ~node.offline

\* mutant of SwallowsStatus: every HTTPError is raised again
SwallowsNothing(status_code) == FALSE

\* except HTTPError as e: if e.response.status_code == 404: (log) else: raise
SwallowsStatus(status_code) == status_code = 404

\* what one call of _delete_jenkins_node_object met: what the master reported
\* for is_online() and how it answered the delete request
Outcome(is_online, answer) == [is_online |-> is_online, answer |-> answer]
Reported(node) ==
    IF ~node.exists THEN "gone" ELSE IF node.offline THEN "offline" ELSE "online"

\* _delete_jenkins_node_object, the master answering as the state says
DeleteNode(n) ==
    /\ pc \in {"delete", "rollback"}
    /\ n \in todo /\ failed = None
    /\ todo' = todo \ {n}
    /\ IF ~nodes[n].exists
       THEN \* is_online() raises HTTPError 404
            /\ delete_outcome' = (n :> Outcome("gone", "none")) @@ delete_outcome
            /\ failed' = IF SwallowsStatus(404) THEN failed ELSE "HTTPError 404"
            /\ UNCHANGED << nodes, req, errlog >>
       ELSE IF StillConnected(nodes[n])
       THEN /\ errlog' = ErrLogAdd("Unable to delete still connected jenkins node", n)
            /\ delete_outcome' = (n :> Outcome(Reported(nodes[n]), "none"))
                                  @@ delete_outcome
            /\ UNCHANGED << nodes, req, failed >>
       ELSE /\ req' = ReqAdd("delete", {n})
            /\ nodes' = [nodes EXCEPT ![n] = NoSlot(n)]
            /\ delete_outcome' = (n :> Outcome(Reported(nodes[n]), "200"))
                                  @@ delete_outcome
            /\ UNCHANGED << failed, errlog >>
    /\ UNCHANGED << instances, config, pc, analysis, retirees, polled, final_list,
                    scale_up_slots, started, items, faults, env_steps, fn >>

\* the delete request is answered with an error status: 404 when the slot
\* went away after is_online() (an event of the outside world), another
\* status when the master fails for a transient reason
DeleteNodeAnswers(n, status_code) ==
    /\ pc \in {"delete", "rollback"}
    /\ n \in todo /\ failed = None
    /\ nodes[n].exists /\ ~StillConnected(nodes[n])
    /\ IF status_code = 404
       THEN /\ env_steps < MaxEnvSteps
            /\ env_steps' = env_steps + 1
            /\ nodes' = [nodes EXCEPT ![n] = NoSlot(n)]
            /\ UNCHANGED faults
       ELSE /\ faults < MaxFaults
            /\ faults' = faults + 1
            /\ UNCHANGED << nodes, env_steps >>
    /\ todo' = todo \ {n}
    /\ req' = ReqAdd("delete", {n})
    /\ delete_outcome' = (n :> Outcome(Reported(nodes[n]),
                                       IF status_code = 404 THEN "404" ELSE "500"))
                          @@ delete_outcome
    /\ failed' = IF SwallowsStatus(status_code) THEN failed
               ELSE IF status_code = 404 THEN "HTTPError 404" ELSE "HTTPError 5xx"
    /\ UNCHANGED << instances, config, pc, analysis, retirees, polled, final_list,
                    scale_up_slots, started, items, errlog, fn >>

DeleteDone ==
    /\ pc = "delete"
    /\ todo = {} /\ failed = None
    /\ items' = {}
    /\ pc' = AfterScaleDown
    /\ UNCHANGED << nodes, instances, config, analysis, retirees, polled, final_list,
                    scale_up_slots, started, todo, failed, req, delete_outcome,
                    errlog, faults, env_steps, fn >>

-----------------------------------------------------------------------------
(* execute_scale_up_logic                                                  *)

NoScaleUp ==
    /\ pc = "scale_up"
    /\ DOMAIN label2num_instances = {}
    /\ pc' = "done"
    /\ UNCHANGED << nodes, instances, config, analysis, retirees, polled, final_list,
                    scale_up_slots, started, fanout, req, delete_outcome, errlog,
                    faults, env_steps, fn >>

\* node_slots of _create_jenkins_node_slots: the labels in dict order, the
\* names drawn for each
RECURSIVE NodeSlots(_, _, _, _)
NodeSlots(labels, label2num, free, node_slots) ==
    IF labels = << >> THEN node_slots
    ELSE LET label == Head(labels)
             num_instances == label2num[label]
         IN IF label \notin _get_slave_configuration \/ num_instances = 0
            THEN NodeSlots(Tail(labels), label2num, free, node_slots)
            ELSE NodeSlots(Tail(labels), label2num,
                           SubSeq(free, num_instances + 1, Len(free)),
                           node_slots @@ (label :> SubSeq(free, 1, num_instances)))

SlotNames(node_slots) == UNION {SeqToSet(node_slots[l]) : l \in DOMAIN node_slots}
SlotLabel(node_slots, n) == CHOOSE l \in DOMAIN node_slots : n \in SeqToSet(node_slots[l])

\* handler.py 863-890: the jobs are built, no request is sent yet
CreateSlotsStart ==
    /\ pc = "scale_up"
    /\ DOMAIN label2num_instances # {}
    /\ scale_up_slots' = NodeSlots(KeysInOrder(label2num_instances), label2num_instances,
                                   NewNames, EmptyMap)
    /\ items' = SlotNames(scale_up_slots')
    /\ todo' = items'
    /\ pc' = "create_slot"
    /\ UNCHANGED << nodes, instances, config, analysis, retirees, polled, final_list,
                    started, failed, req, delete_outcome, errlog, faults, env_steps,
                    fn >>

\* one doCreateItem request
CreateSlot(n) ==
    /\ pc = "create_slot"
    /\ n \in todo /\ failed = None
    /\ todo' = todo \ {n}
    /\ req' = ReqAdd("create_slot", {n})
    /\ nodes' = [nodes EXCEPT ![n] = Unconnected(n, SlotLabel(scale_up_slots, n))]
    /\ UNCHANGED << instances, config, pc, analysis, retirees, polled, final_list,
                    scale_up_slots, started, items, failed, delete_outcome, errlog,
                    faults, env_steps, fn >>

\* _format_ec2_user_data_command(label, ...) is not None
HasUserData(label) == label \in linux_types \cup windows_types

\* mutant of CreateSlotsReturns: the call returns while requests are left
CreateSlotsReturnsEarly(remaining) == TRUE

\* Parallel(...)(delayed(post_and_confirm_status)(...) for job in jobs)
\* returns when every request was made
CreateSlotsReturns(remaining) == remaining = {}

\* handler.py 708-735: the launch jobs
LaunchJobs(node_slots) ==
    {n \in SlotNames(node_slots) :
        /\ SlotLabel(node_slots, n) \in _launch_templates
        /\ HasUserData(SlotLabel(node_slots, n))}

\* Parallel(n_jobs=min(AWS_PARALLEL_REQUESTS_LIMIT, len(jobs))): joblib raises
\* ValueError for n_jobs = 0, and the call is not guarded against no jobs
LaunchRaises(jobs) == IF jobs = {} THEN "ValueError" ELSE None

\* _create_jenkins_node_slots has returned; _launch_ec2_instances builds
\* its jobs and starts the fan-out
CreateSlotsDone ==
    /\ pc = "create_slot"
    /\ CreateSlotsReturns(todo) /\ failed = None
    /\ items' = LaunchJobs(scale_up_slots)
    /\ todo' = items'
    /\ failed' = LaunchRaises(items')
    /\ pc' = IF failed' = None THEN "launch" ELSE Raised(failed')
    /\ errlog' = IF failed' = None THEN errlog ELSE FatalLogged(failed')
    /\ UNCHANGED << nodes, instances, config, analysis, retirees, polled, final_list,
                    scale_up_slots, started, req, delete_outcome,
                    faults, env_steps, fn >>

\* _launch_ec2_instance: run_instances succeeds
Launch(n) ==
    /\ pc = "launch"
    /\ n \in todo
    /\ todo' = todo \ {n}
    /\ req' = ReqAdd("run_instances", {n})
    /\ instances' = [instances EXCEPT ![n] = Instance(n, SlotLabel(scale_up_slots, n), 0)]
    /\ started' = started \cup {n}
    /\ UNCHANGED << nodes, config, pc, analysis, retirees, polled, final_list,
                    scale_up_slots, items, failed, delete_outcome, errlog, faults,
                    env_steps, fn >>

\* _launch_ec2_instance: run_instances raises; the exception is logged and
\* the function returns None
LaunchFails(n) ==
    /\ pc = "launch"
    /\ n \in todo
    /\ todo' = todo \ {n}
    /\ req' = ReqAdd("run_instances", {n})
    /\ UNCHANGED << nodes, instances, config, pc, analysis, retirees, polled,
                    final_list, scale_up_slots, started, items, failed,
                    delete_outcome, errlog, faults, env_steps, fn >>

\* handler.py 125-132
LaunchDone ==
    /\ pc = "launch"
    /\ todo = {}
    /\ LET not_started_instance_names == SlotNames(scale_up_slots) \ started
           as_list == SelectSeq(NameOrder, LAMBDA n : n \in not_started_instance_names)
       IN IF not_started_instance_names = {}
          THEN /\ pc' = "done"
               /\ items' = {}
               /\ UNCHANGED faults
          ELSE /\ pc' = "rollback"
               /\ \E lost \in Losses(as_list) :
                    /\ items' = SeqToSet(_convert_to_jenkins_nodes(as_list, lost))
                    /\ faults' = faults + Cardinality(lost)
    /\ todo' = items'
    /\ UNCHANGED << nodes, instances, config, analysis, retirees, polled, final_list,
                    scale_up_slots, started, failed, req, delete_outcome, errlog,
                    env_steps, fn >>

RollbackDone ==
    /\ pc = "rollback"
    /\ todo = {} /\ failed = None
    /\ items' = {}
    /\ pc' = "done"
    /\ UNCHANGED << nodes, instances, config, analysis, retirees, polled, final_list,
                    scale_up_slots, started, todo, failed, req, delete_outcome,
                    errlog, faults, env_steps, fn >>

-----------------------------------------------------------------------------
(* One pass of scaling_handler                                             *)

Next ==
    \/ FetchRaises
    \/ Analyze
    \/ AnalyzeRaises
    \/ NoScaleDown
    \/ ConvertRetirees
    \/ \E n \in Names : MarkOffline(n)
    \/ MarkOfflineDone
    \/ \E n \in Names : Poll(n)
    \/ PollDone
    \/ \E n \in Names : MarkOnline(n)
    \/ MarkOnlineDone
    \/ \E n \in Names : RequestFails(n)
    \/ FanOutRaises
    \/ TerminateRetirees
    \/ TerminateOrphaned
    \/ TerminateRaises
    \/ \E n \in Names : DeleteNode(n)
    \/ \E n \in Names, status_code \in {404, 500} : DeleteNodeAnswers(n, status_code)
    \/ DeleteDone
    \/ NoScaleUp
    \/ CreateSlotsStart
    \/ \E n \in Names : CreateSlot(n)
    \/ CreateSlotsDone
    \/ \E n \in Names : Launch(n)
    \/ \E n \in Names : LaunchFails(n)
    \/ LaunchDone
    \/ RollbackDone
    \/ \E n \in Names : BuildStarts(n)
    \/ \E n \in Names : AdminOnline(n)
    \/ \E n \in Names : SlotDeleted(n)

Spec == Init /\ [][Next]_vars

SpecIgnored == InitIgnored /\ [][Next]_vars

-----------------------------------------------------------------------------
(* execute_scale_up_logic on its own: Init draws the demand after the cap  *)
(* and the configuration (the labels that have a slot configuration and    *)
(* the labels that have a launch template); the steps are those of the     *)
(* pass from the call of execute_scale_up_logic on.                        *)

ScaleUpDemands ==
    {EmptyMap, LINUX :> 1, LINUX :> 2, WINDOWS :> 1, WINDOWS :> 2,
     (LINUX :> 1) @@ (WINDOWS :> 1)}

InitScaleUp ==
    /\ nodes = [n \in Names |-> NoSlot(n)]
    /\ instances = [n \in Names |-> NoInstance(n)]
    /\ queue = << >> /\ warm_pool_size = EmptyMap /\ now = 100
    /\ pc = "scale_up" /\ snap = << >> /\ instance_uptime = EmptyMap
    /\ label2num_instances \in ScaleUpDemands
    /\ scale_down_selected = EmptyMap /\ retire_after_cap = EmptyMap
    /\ label2faulty_nodes = EmptyMap /\ orphaned_instances = << >>
    /\ scale_down_nodes = EmptyMap /\ nodes_online = << >> /\ nodes_offline = << >>
    /\ polled = EmptyMap /\ final_list = << >> /\ scale_up_slots = EmptyMap
    /\ started = {} /\ items = {} /\ todo = {} /\ failed = None
    /\ req = [k \in RequestKinds |-> {}]
    /\ delete_outcome = EmptyMap /\ errlog = EmptyMap /\ env_steps = 0 /\ faults = 0
    /\ ret = NotCalled
    /\ \E slave_configuration \in SUBSET _managed_jenkins_node_labels,
          launch_templates \in SUBSET _managed_jenkins_node_labels :
         arg = [fn |-> "execute_scale_up_logic",
                slave_configuration |-> slave_configuration,
                launch_templates |-> launch_templates]

NextScaleUp ==
    \/ NoScaleUp
    \/ CreateSlotsStart
    \/ \E n \in Names : CreateSlot(n)
    \/ \E n \in Names : RequestFails(n)
    \/ FanOutRaises
    \/ CreateSlotsDone
    \/ \E n \in Names : Launch(n)
    \/ \E n \in Names : LaunchFails(n)
    \/ LaunchDone
    \/ \E n \in Names : DeleteNode(n)
    \/ \E n \in Names, status_code \in {404, 500} : DeleteNodeAnswers(n, status_code)
    \/ RollbackDone

SpecScaleUp == InitScaleUp /\ [][NextScaleUp]_vars

-----------------------------------------------------------------------------
(* determine_scale_down_nodes on its own: Init draws the executors, the    *)
(* uptime of their instances and the warm-pool floors; one step applies    *)
(* the function and records every result the random pops allow.            *)

\* what the master can list under one name, with the uptime of its instance
SupplyA1 ==
    LET n == "a1" l == LINUX
    IN {<< OnlineIdle(n, l, LINUX_ARCH), 4000 >>, << OnlineBusy(n, l, LINUX_ARCH), 4000 >>,
        << OnlineIdle(n, l, None), 100 >>, << Unconnected(n, l), 100 >>,
        << [OnlineIdle(n, l, LINUX_ARCH) EXCEPT !.assignedLabels = {n, LINUX, WINDOWS}],
           4000 >>}
SupplyA2 ==
    LET n == "a2" l == LINUX
    IN {<< OnlineIdle(n, l, LINUX_ARCH), 4000 >>,
        << [OnlineIdle(n, l, LINUX_ARCH) EXCEPT !.assignedLabels = {n, IGNORED}], 4000 >>}
SupplyW1 ==
    LET n == "w1" l == WINDOWS
    IN {<< OnlineIdle(n, l, WINDOWS_ARCH), u >> : u \in {3299, 3300}}
       \cup {<< OnlineBusy(n, l, WINDOWS_ARCH), 3300 >>}
SupplyW2 ==
    LET n == "new1" l == WINDOWS
    IN {<< OnlineIdle(n, l, WINDOWS_ARCH), u >> : u \in {3299, 3300}}

SupplyFloors == {EmptyMap} \cup {(LINUX :> kl) @@ (WINDOWS :> kw) : kl, kw \in 0..3}

InitSupply ==
    /\ nodes = EmptyMap /\ instances = EmptyMap /\ queue = << >> /\ now = 0
    /\ warm_pool_size \in SupplyFloors
    /\ pc = "no_pass" /\ snap = << >> /\ instance_uptime = EmptyMap
    /\ label2num_instances = EmptyMap /\ scale_down_selected = EmptyMap
    /\ retire_after_cap = EmptyMap
    /\ label2faulty_nodes = EmptyMap /\ orphaned_instances = << >>
    /\ scale_down_nodes = EmptyMap /\ nodes_online = << >> /\ nodes_offline = << >>
    /\ polled = EmptyMap /\ final_list = << >> /\ scale_up_slots = EmptyMap
    /\ started = {} /\ items = {} /\ todo = {} /\ failed = None /\ req = EmptyMap
    /\ delete_outcome = EmptyMap /\ errlog = EmptyMap /\ env_steps = 0 /\ faults = 0
    /\ ret = NotCalled
    /\ \E a1 \in SupplyA1, a2 \in SupplyA2, w1 \in SupplyW1, w2 \in SupplyW2 :
         arg = [fn |-> "determine_scale_down_nodes",
                nodes_data |-> << a1[1], a2[1], w1[1], w2[1] >>,
                instance_uptime |-> ("a1" :> a1[2]) @@ ("a2" :> a2[2])
                                    @@ ("w1" :> w1[2]) @@ ("new1" :> w2[2])]

CallSupply ==
    /\ arg.fn = "determine_scale_down_nodes"
    /\ ret = NotCalled
    /\ ret' = [results |-> determine_scale_down_nodes(arg.nodes_data, arg.instance_uptime)]
    /\ UNCHANGED << passvars, arg >>

NextSupply == CallSupply

SpecSupply == InitSupply /\ [][NextSupply]_vars

-----------------------------------------------------------------------------
(* _terminate_ec2_instances on its own: Init draws the list of names, one  *)
(* step records the terminate calls the function makes.                    *)

\* the Values of the tag:Name filter of each terminate call, in order
TerminateCalls(instance_names) == chunks(instance_names, EC2_FILTER_CHUNK_SIZE)

InitTerminate ==
    /\ NoPass
    /\ ret = NotCalled
    /\ \E n \in 0..MaxNames :
         arg = [fn |-> "_terminate_ec2_instances", instance_names |-> [i \in 1..n |-> i]]

CallTerminate ==
    /\ arg.fn = "_terminate_ec2_instances"
    /\ ret = NotCalled
    /\ ret' = [raised |-> None, value |-> TerminateCalls(arg.instance_names)]
    /\ UNCHANGED << passvars, arg >>

NextTerminate == CallTerminate

SpecTerminate == InitTerminate /\ [][NextTerminate]_vars

-----------------------------------------------------------------------------
(* The analyzers on one executor: Init draws the executor as the master    *)
(* lists it and the managed instances, one step runs _instance_uptime,     *)
(* _unconnected_instances, _determine_faulty_nodes, the supply analyzer    *)
(* and the demand analyzer for a queue item that names the executor.       *)

DetectNames == {"a1", "reserved1", "master"}
DetectLabels(n) == {{n, LINUX}, {n, LINUX, WINDOWS}, {n, IGNORED}, {n}}
DetectCauses == {None, USER_CAUSE, MONITOR_CAUSE}
DetectReasons ==
    {"", DOWNSCALE_REASON, DOWNSCALE_MANUAL_REASON \o " Reason2", "Custom offline1"}

\* the managed instances: none or one with the name of the executor, at the
\* startup limit or one second past it, and none or one with no executor
DetectInstances(n) ==
    {own \o other :
        own \in {<< >>} \cup {<< Instance(n, LINUX, u) >> :
                    u \in {_maximum_startup_time[LINUX], _maximum_startup_time[LINUX] + 1}},
        other \in {<< >>, << Instance("w1", WINDOWS, 100) >>}}

InitDetect ==
    /\ NoPass
    /\ ret = NotCalled
    /\ \E n \in DetectNames, offline \in BOOLEAN, temporarilyOffline \in BOOLEAN,
          idle \in BOOLEAN, cause \in DetectCauses, reason \in DetectReasons :
         \E labels \in DetectLabels(n), insts \in DetectInstances(n) :
            arg = [fn |-> "_determine_faulty_nodes",
                   nodes |-> << [Node(n, LINUX, offline, temporarilyOffline, idle, cause,
                                      reason, LINUX_ARCH)
                                   EXCEPT !.assignedLabels = labels] >>,
                   instances |-> insts,
                   queue |-> << QueueItem(1, "RE_NO_AVAILABLE_NODE", n, 0) >>]

\* handler.py 1466-1487 with the fetched data as arguments
Detected(nodes_data, queue_items, uptime, unconnected) ==
    [raised |-> None,
     uptime |-> uptime,
     unconnected |-> unconnected,
     detected |-> _determine_faulty_nodes(nodes_data, unconnected, uptime),
     selected |-> {sd.value : sd \in determine_scale_down_nodes(nodes_data, uptime)},
     demand |-> determine_scale_up_nodes(queue_items, nodes_data, unconnected, 100).value]

DetectWithUptime(nodes_data, insts, queue_items, uptime) ==
    IF UnconnectedRaises(nodes_data, insts, uptime)
    THEN [raised |-> "KeyError"]
    ELSE Detected(nodes_data, queue_items, uptime, _unconnected_instances(nodes_data, insts))

CallDetect ==
    /\ arg.fn = "_determine_faulty_nodes"
    /\ ret = NotCalled
    /\ ret' = DetectWithUptime(arg.nodes, arg.instances, arg.queue,
                               _instance_uptime(arg.instances))
    /\ UNCHANGED << passvars, arg >>

NextDetect == CallDetect

SpecDetect == InitDetect /\ [][NextDetect]_vars

-----------------------------------------------------------------------------
(* _terminate_ec2_instances against a provider that also runs instances    *)
(* the autoscaler did not launch: Init draws the instances of the account  *)
(* with their tags and the list of names, one step makes the terminate     *)
(* calls.                                                                  *)

Vm(id, name, tag) == [id |-> id, Name |-> name, AutoScaledSlave |-> tag, state |-> "running"]

\* the instances that carry one Name tag: launched by the autoscaler (tag
\* AutoScaledSlave=True), tagged otherwise, or without the tag
VmsNamed(name) ==
    {{}, {Vm(<< name, 1 >>, name, "True")},
         {Vm(<< name, 2 >>, name, "False")},
         {Vm(<< name, 3 >>, name, None)},
         {Vm(<< name, 1 >>, name, "True"), Vm(<< name, 3 >>, name, None)}}

NameLists == {<< >>, << "a1" >>, << "a2", "a1" >>, << "w1", "a2" >>, << "a1", "a2", "w1" >>}

\* mutant of FilterInstances: the filter on tag:AutoScaledSlave is left out
FilterByNameOnly(vms, instance_names) == {vm \in vms : vm.Name \in SeqToSet(instance_names)}

\* ec2_resource.instances.filter(Filters=[tag:Name in instance_names,
\* tag:AutoScaledSlave in ['True']]): an instance must pass both filters
FilterInstances(vms, instance_names) ==
    {vm \in vms : vm.Name \in SeqToSet(instance_names) /\ vm.AutoScaledSlave = "True"}

\* the account after the terminate calls for the first k chunks
RECURSIVE TerminatedVms(_, _, _)
TerminatedVms(vms, calls, k) ==
    IF k = 0 THEN vms
    ELSE LET before == TerminatedVms(vms, calls, k - 1)
         IN {IF vm \in FilterInstances(before, calls[k])
             THEN [vm EXCEPT !.state = "shutting-down"] ELSE vm : vm \in before}

InitTerminateTagged ==
    /\ NoPass
    /\ ret = NotCalled
    /\ \E a1 \in VmsNamed("a1"), a2 \in VmsNamed("a2"), w1 \in VmsNamed("w1"),
          instance_names \in NameLists :
         arg = [fn |-> "instances.filter.terminate", vms |-> a1 \cup a2 \cup w1,
                instance_names |-> instance_names]

CallTerminateTagged ==
    /\ arg.fn = "instances.filter.terminate"
    /\ ret = NotCalled
    /\ ret' = [raised |-> None,
               value |-> TerminatedVms(arg.vms, TerminateCalls(arg.instance_names),
                                       Len(TerminateCalls(arg.instance_names)))]
    /\ UNCHANGED << passvars, arg >>

NextTerminateTagged == CallTerminateTagged

SpecTerminateTagged == InitTerminateTagged /\ [][NextTerminateTagged]_vars

-----------------------------------------------------------------------------
(* main of slave-autoconnect.py: the connect loop of the agent              *)
(* ret holds the locals of main (i, reset, the nodes still to try), the     *)
(* position in the loop, the Name tag of the instance and the return code;  *)
(* streak and longest are history fields: the number of consecutive         *)
(* completed rounds without a long connection, and the longest connection   *)
(* of the round under way.                                                  *)

RETRY_COUNTER_RESET_TIME_SECONDS == 600
RETRY_LIMIT == 5

\* the Name tag written by rename_instance: a node name or an error word,
\* with the suffix of '{}-unable-to-connect'
Tag(name, suffix) == [name |-> name, suffix |-> suffix]

\* what the master answers to get_nodes, filtered to the offline nodes of the
\* platform prefix and shuffled
OfflineNodeLists == {<< >>, << "a1" >>, << "a2" >>, << "a1", "a2" >>, << "a2", "a1" >>}

\* seconds that subprocess.call of the agent jar takes
ConnectionSeconds ==
    {0, RETRY_COUNTER_RESET_TIME_SECONDS, RETRY_COUNTER_RESET_TIME_SECONDS + 1}

\* line 318, with the threshold itself counted as long
ResetsCounterAtThreshold(total_runtime_seconds) ==
    total_runtime_seconds >= RETRY_COUNTER_RESET_TIME_SECONDS

\* line 318: if total_runtime_seconds > RETRY_COUNTER_RESET_TIME_SECONDS
ResetsCounter(total_runtime_seconds) ==
    total_runtime_seconds > RETRY_COUNTER_RESET_TIME_SECONDS

InitAgent ==
    /\ NoPass
    /\ \E slave_name \in {None, "a1"} : arg = [fn |-> "main", slave_name |-> slave_name]
    /\ ret = [raised |-> None, pos |-> "while", i |-> 0, reset |-> FALSE,
              offline_nodes |-> << >>, tag |-> Tag("boot", ""), returns |-> << >>,
              streak |-> 0, longest |-> 0]

\* while i < RETRY_LIMIT: i += 1, the nodes to try, reset = False
AgentRound ==
    /\ arg.fn = "main" /\ ret.pos = "while"
    /\ ret.i < RETRY_LIMIT
    /\ \E offline_nodes \in
            IF arg.slave_name # None THEN {<< arg.slave_name >>} ELSE OfflineNodeLists :
         ret' = IF Len(offline_nodes) = 0
                THEN [ret EXCEPT !.i = ret.i + 1, !.pos = "returned",
                                 !.tag = Tag("error-no-free-slot", ""),
                                 !.returns = << 1 >>]
                ELSE [ret EXCEPT !.i = ret.i + 1, !.pos = "connect",
                                 !.offline_nodes = offline_nodes,
                                 !.reset = FALSE, !.longest = 0]
    /\ UNCHANGED << passvars, arg >>

\* for node_name in offline_nodes: connect_to_master renames the instance to
\* the node and blocks while the agent runs
AgentConnect ==
    /\ arg.fn = "main" /\ ret.pos = "connect"
    /\ ret.offline_nodes # << >>
    /\ \E total_runtime_seconds \in ConnectionSeconds :
         LET node_name == Head(ret.offline_nodes)
         IN ret' = [ret EXCEPT
                      !.offline_nodes = Tail(ret.offline_nodes),
                      !.longest = Max(ret.longest, total_runtime_seconds),
                      !.reset = IF ResetsCounter(total_runtime_seconds)
                                THEN TRUE ELSE ret.reset,
                      !.tag = IF ResetsCounter(total_runtime_seconds)
                              THEN Tag(node_name, "")
                              ELSE Tag(node_name, "unable-to-connect")]
    /\ UNCHANGED << passvars, arg >>

\* time.sleep(...); if reset: i = 0
AgentSleep ==
    /\ arg.fn = "main" /\ ret.pos = "connect"
    /\ ret.offline_nodes = << >>
    /\ ret' = [ret EXCEPT
                 !.pos = "while",
                 !.i = IF ret.reset THEN 0 ELSE ret.i,
                 !.streak = IF ret.longest > RETRY_COUNTER_RESET_TIME_SECONDS
                            THEN 0 ELSE Min(ret.streak + 1, RETRY_LIMIT + 1)]
    /\ UNCHANGED << passvars, arg >>

\* the loop ends: rename_instance('error-too-many-attempts'); return 1
AgentGivesUp ==
    /\ arg.fn = "main" /\ ret.pos = "while"
    /\ ~(ret.i < RETRY_LIMIT)
    /\ ret' = [ret EXCEPT !.pos = "returned",
                          !.tag = Tag("error-too-many-attempts", ""),
                          !.returns = << 1 >>]
    /\ UNCHANGED << passvars, arg >>

\* a call of the loop raises (get_nodes, rename_instance, subprocess.call):
\* except Exception logs it and returns 1, the tag is the last one written
AgentRaises ==
    /\ arg.fn = "main" /\ ret.pos \in {"while", "connect"}
    /\ ret' = [ret EXCEPT !.pos = "returned", !.raised = "Exception",
                          !.returns = << 1 >>]
    /\ UNCHANGED << passvars, arg >>

NextAgent ==
    \/ AgentRound
    \/ AgentConnect
    \/ AgentSleep
    \/ AgentGivesUp
    \/ AgentRaises

SpecAgent == InitAgent /\ [][NextAgent]_vars

-----------------------------------------------------------------------------
(* The fan-outs of one pass, with the requests counted                      *)
(* Parallel(n_jobs=..., backend="threading")(jobs) runs the jobs on n_jobs  *)
(* threads and returns when every job has returned; when a job raises, the  *)
(* call raises while jobs of other threads may still run.  ret holds the    *)
(* position in the sequence of fan-outs, the jobs not yet started and, for  *)
(* every fan-out of the sequence, the requests in flight.                   *)

AWS_PARALLEL_REQUESTS_LIMIT == 3
JENKINS_PARALLEL_REQUESTS_LIMIT == 100
JENKINS_PARALLEL_CREATE_REQUESTS_LIMIT == 10

FanOut(f, limit, guarded) == [fn |-> f, limit |-> limit, guarded |-> guarded]

\* the Parallel calls in the order in which scaling() reaches them:
\* execute_scale_down_logic, then execute_scale_up_logic
FanOutsOfPass ==
    << FanOut("_convert_to_jenkins_nodes", JENKINS_PARALLEL_REQUESTS_LIMIT, TRUE),
       FanOut("_mark_nodes_offline", JENKINS_PARALLEL_REQUESTS_LIMIT, TRUE),
       FanOut("_partition_non_idle", JENKINS_PARALLEL_REQUESTS_LIMIT, TRUE),
       FanOut("_mark_nodes_online", JENKINS_PARALLEL_REQUESTS_LIMIT, TRUE),
       FanOut("_convert_to_jenkins_nodes", JENKINS_PARALLEL_REQUESTS_LIMIT, TRUE),
       FanOut("_delete_jenkins_node_objects", JENKINS_PARALLEL_REQUESTS_LIMIT, TRUE),
       FanOut("_create_jenkins_node_slots", JENKINS_PARALLEL_CREATE_REQUESTS_LIMIT, TRUE),
       FanOut("_launch_ec2_instances", AWS_PARALLEL_REQUESTS_LIMIT, FALSE),
       FanOut("_convert_to_jenkins_nodes", JENKINS_PARALLEL_REQUESTS_LIMIT, TRUE),
       FanOut("_delete_jenkins_node_objects", JENKINS_PARALLEL_REQUESTS_LIMIT, TRUE) >>

\* len(jobs): none, one, as many as the limit, one more than the limit
JobCounts(limit) == {0, 1, limit, limit + 1}

\* the fan-out starts every job at once
AllAtOnce(limit, len_jobs) == len_jobs

\* n_jobs=min(..._LIMIT, len(jobs))
n_jobs(limit, len_jobs) == Min(limit, len_jobs)

NoneInFlight == [k \in DOMAIN FanOutsOfPass |-> 0]

InitFanOuts ==
    /\ NoPass
    /\ arg = [fn |-> "Parallel"]
    /\ ret = [raised |-> None, pos |-> 1, state |-> "idle", n_jobs |-> 0,
              waiting |-> 0, in_flight |-> NoneInFlight]

\* the function of the fan-out is reached: without jobs the guarded ones
\* return at once and the unguarded one raises in Parallel(n_jobs=0)
FanOutStart ==
    /\ arg.fn = "Parallel" /\ ret.state = "idle"
    /\ ret.pos \in DOMAIN FanOutsOfPass
    /\ \E len_jobs \in JobCounts(FanOutsOfPass[ret.pos].limit) :
         ret' = IF len_jobs > 0
                THEN [ret EXCEPT !.state = "running", !.waiting = len_jobs,
                                 !.n_jobs = n_jobs(FanOutsOfPass[ret.pos].limit, len_jobs)]
                ELSE IF FanOutsOfPass[ret.pos].guarded
                THEN [ret EXCEPT !.pos = ret.pos + 1]
                ELSE [ret EXCEPT !.state = "aborted", !.raised = "ValueError"]
    /\ UNCHANGED << passvars, arg >>

\* a free thread of the pool takes the next job and sends its request
RequestStart ==
    /\ arg.fn = "Parallel" /\ ret.state = "running"
    /\ ret.waiting > 0
    /\ ret.in_flight[ret.pos] < ret.n_jobs
    /\ ret' = [ret EXCEPT !.waiting = ret.waiting - 1,
                          !.in_flight[ret.pos] = ret.in_flight[ret.pos] + 1]
    /\ UNCHANGED << passvars, arg >>

\* a request is answered and its job returns; after the call has raised the
\* jobs of the other threads still come to their end
RequestDone ==
    /\ arg.fn = "Parallel" /\ ret.state \in {"running", "aborted"}
    /\ \E k \in DOMAIN FanOutsOfPass :
         /\ ret.in_flight[k] > 0
         /\ ret' = [ret EXCEPT !.in_flight[k] = ret.in_flight[k] - 1]
    /\ UNCHANGED << passvars, arg >>

\* a job raises: Parallel raises, nothing catches it before scaling_handler
RequestRaises ==
    /\ arg.fn = "Parallel" /\ ret.state = "running"
    /\ ret.in_flight[ret.pos] > 0
    /\ ret' = [ret EXCEPT !.state = "aborted", !.raised = "Exception",
                          !.in_flight[ret.pos] = ret.in_flight[ret.pos] - 1]
    /\ UNCHANGED << passvars, arg >>

\* every job has returned: Parallel returns the list of the results
FanOutJoin ==
    /\ arg.fn = "Parallel" /\ ret.state = "running"
    /\ ret.waiting = 0
    /\ ret.in_flight[ret.pos] = 0
    /\ ret' = [ret EXCEPT !.state = "idle", !.pos = ret.pos + 1, !.n_jobs = 0]
    /\ UNCHANGED << passvars, arg >>

NextFanOuts ==
    \/ FanOutStart
    \/ RequestStart
    \/ RequestDone
    \/ RequestRaises
    \/ FanOutJoin

SpecFanOuts == InitFanOuts /\ [][NextFanOuts]_vars

-----------------------------------------------------------------------------
(* Claims about the cap functions                                          *)

UpscaleCalled == arg.fn = "_apply_upscale_limit" /\ ret # NotCalled

\* C2: for every demand map of non-negative counts and every cap (a natural
\* number), _apply_upscale_limit returns without raising a map whose counts
\* sum to min(cap, requested total), and returns the map unchanged when the
\* requested total is within the cap.
C2_UpscaleSumIsMin ==
    UpscaleCalled =>
        /\ ret.raised = None
        /\ SumMap(ret.value) = Min(arg.limit, SumMap(arg.label2num_instances))
        /\ SumMap(arg.label2num_instances) <= arg.limit
             => ret.value = arg.label2num_instances

\* a call that had to cut: three labels, total above the cap, rounding needed
C2_Witness ==
    /\ UpscaleCalled
    /\ arg.limit = 5
    /\ arg.label2num_instances = ("a" :> 1) @@ ("b" :> 2) @@ ("c" :> 7)
    /\ SumMap(ret.value) = 5

DownscaleCalled == arg.fn = "_apply_downscale_limit" /\ ret # NotCalled

\* C3: for every retire map and every cap (a natural number),
\* _apply_downscale_limit returns at most cap executors in total, each of
\* them from the input list of the same label.
C3_DownscaleWithinCap ==
    DownscaleCalled =>
        /\ SumLen(ret.value) <= arg.limit
        /\ \A l \in DOMAIN ret.value :
             /\ l \in DOMAIN arg.scale_down_nodes
             /\ SeqToSet(ret.value[l]) \subseteq SeqToSet(arg.scale_down_nodes[l])

\* a call that had to cut in the middle of a label's list
C3_Witness ==
    /\ DownscaleCalled
    /\ arg.limit = 3
    /\ SumLen(arg.scale_down_nodes) > 3
    /\ SumLen(ret.value) = 3
    /\ \E l \in DOMAIN ret.value : Len(ret.value[l]) < Len(arg.scale_down_nodes[l])

-----------------------------------------------------------------------------
(* Claims about one pass                                                   *)

\* the names in a dict label -> list of names
RetireNames(m) == UNION {SeqToSet(m[l]) : l \in DOMAIN m}
FaultyNames == RetireNames(label2faulty_nodes)
SelectedNames == RetireNames(scale_down_selected)

\* the analysis has run and returned
Analyzed == pc # "start" /\ failed \notin {"ConnectionError", "KeyError", "ValueError"}

\* the executor as the pass fetched it
Fetched(n) == _find_node_by_name(snap, n)
FetchedNames == {snap[i].displayName : i \in 1..Len(snap)}

\* the pass is past the re-enable step of scale-down
AfterReEnable ==
    pc \in {"terminate", "delete", "orphans", "scale_up", "create_slot", "launch",
            "rollback", "done"}

\* the retirees _partition_non_idle found not idle or online again
RaceLosers ==
    IF pc \in {"start", "scale_down", "mark_offline", "poll"} THEN {}
    ELSE {n \in SeqToSet(nodes_online) :
            n \in DOMAIN polled /\ (~polled[n].idle \/ polled[n].online)}

\* C1: an executor that was online when scale-down started and that the
\* re-poll after the offline mark finds not idle or online again is not in
\* the final retire list, no termination of its VM and no deletion of its
\* slot is requested in the pass, and once the pass is past the re-enable
\* step set_online has been requested for it.
C1_RaceLoserIsReEnabled ==
    \A n \in RaceLosers :
        /\ n \notin SeqToSet(final_list)
        /\ n \notin req["terminate"] \cup req["terminate_orphaned"]
        /\ n \notin req["delete"]
        /\ AfterReEnable => n \in req["set_online"]

\* a build started on a1 between the mark and the poll; the pass ended, a1 is
\* online again with its VM, while another retiree was terminated and deleted
C1_Witness ==
    /\ pc = "done"
    /\ "a1" \in RaceLosers /\ ~polled["a1"].idle
    /\ "set_offline" \in DOMAIN req /\ "a1" \in req["set_offline"]
    /\ "a1" \in req["set_online"]
    /\ nodes["a1"].exists /\ ~nodes["a1"].offline /\ instances["a1"].exists
    /\ req["terminate"] # {} /\ req["delete"] # {}

\* C4 as stated: termination is requested for at most NUM_DOWNSCALES_PER_ROUND
\* VMs in one pass, retirees, faulty executors and orphans together.
C4_CapLimitsAllTerminations ==
    Cardinality(req["terminate"] \cup req["terminate_orphaned"])
        <= NUM_DOWNSCALES_PER_ROUND

\* C4, amended: the cap bounds the retirees taken from the supply analyzer:
\* at most NUM_DOWNSCALES_PER_ROUND of them pass the cap, they are among the
\* selected ones, and every other executor whose VM the scale-down terminates
\* was classified faulty.
C4_CapLimitsSupplyRetirees ==
    /\ SumLen(retire_after_cap) <= NUM_DOWNSCALES_PER_ROUND
    /\ RetireNames(retire_after_cap) \subseteq SelectedNames
    /\ req["terminate"] \subseteq RetireNames(retire_after_cap) \cup FaultyNames
    /\ Cardinality(req["terminate"] \ FaultyNames) <= NUM_DOWNSCALES_PER_ROUND

\* the supply analyzer selected more than the cap and the pass retired
\* exactly as many of them as the cap allows
C4_Witness ==
    /\ pc = "done"
    /\ SumLen(scale_down_selected) > NUM_DOWNSCALES_PER_ROUND
    /\ FaultyNames = {}
    /\ Cardinality(req["terminate"]) = NUM_DOWNSCALES_PER_ROUND

\* the executors of the fetched list that section 4.5 calls retirement-eligible
\* and idle, for one label
IdleEligible(l) ==
    {n \in FetchedNames :
        /\ ~Fetched(n).offline /\ Fetched(n).idle
        /\ n # "master"
        /\ _managed_node_label(Fetched(n)) = l
        /\ Fetched(n).architecture # None}
StillIdle(n) == nodes[n].exists /\ ~nodes[n].offline /\ nodes[n].idle

\* C5 as stated: after a pass (one that no outside event and no failed
\* request disturbed), every label with a warm-pool floor k has at least
\* min(k, idle eligible executors before the pass) executors left idle,
\* online and eligible.
C5_WarmPoolFloorAfterPass ==
    (pc = "done" /\ env_steps = 0 /\ faults = 0) =>
        \A l \in DOMAIN warm_pool_size :
            Cardinality({n \in IdleEligible(l) : StillIdle(n)})
                >= Min(warm_pool_size[l], Cardinality(IdleEligible(l)))

\* C5, amended: the supply analyzer leaves, for every label with a warm-pool
\* floor k, at least min(k, idle eligible executors) of the idle eligible
\* executors unselected.
C5_SupplyAnalyzerLeavesFloor ==
    Analyzed =>
        \A l \in DOMAIN warm_pool_size :
            Cardinality(IdleEligible(l) \ SelectedNames)
                >= Min(warm_pool_size[l], Cardinality(IdleEligible(l)))

\* two idle Linux executors, floor 1: one is selected and retired, the other
\* is still idle and online when the pass ends
C5_Witness ==
    /\ pc = "done"
    /\ warm_pool_size[LINUX] = 1
    /\ IdleEligible(LINUX) = {"a1", "a2"}
    /\ Cardinality(SelectedNames \cap {"a1", "a2"}) = 1
    /\ \E n \in {"a1", "a2"} : n \in req["terminate"] /\ ~nodes[n].exists
    /\ \E n \in {"a1", "a2"} : StillIdle(n) /\ instances[n].exists

\* the fetched executors of the Windows family whose VM is in the part of
\* its billing hour before WINDOWS_MIN_PARTIAL_RUNTIME_SECONDS
EarlyWindows ==
    {n \in FetchedNames :
        /\ \/ IsWindows(Fetched(n).architecture)
           \/ _managed_node_label(Fetched(n)) \in windows_types
        /\ n \in DOMAIN instance_uptime
        /\ instance_uptime[n] % 3600 < WINDOWS_MIN_PARTIAL_RUNTIME_SECONDS}

\* C6 as stated: by no path is termination requested for the VM of a Windows
\* executor whose uptime mod 3600 is below the threshold.
C6_NoEarlyWindowsTermination ==
    req["terminate"] \cap EarlyWindows = {}

\* C6, amended: the supply analyzer never selects a Windows executor whose VM
\* uptime mod 3600 is below the threshold, and termination is requested for
\* the VM of such an executor only when the fault detector classified it faulty.
C6_SupplyKeepsEarlyWindows ==
    Analyzed =>
        \A n \in EarlyWindows :
            /\ n \notin SelectedNames
            /\ n \in req["terminate"] => n \in FaultyNames

\* w1 is idle and online at 54 min 59 s; the pass ends and its VM still runs
C6_Witness ==
    /\ pc = "done"
    /\ "w1" \in EarlyWindows
    /\ ~Fetched("w1").offline /\ Fetched("w1").idle
    /\ instance_uptime["w1"] = 3299
    /\ instances["w1"].exists /\ StillIdle("w1")

\* w1 as scenario 5 has it: idle, online, Windows, warm pool 0
WindowsScenario(uptime) ==
    /\ Analyzed
    /\ warm_pool_size[WINDOWS] = 0
    /\ "w1" \in FetchedNames
    /\ ~Fetched("w1").offline /\ Fetched("w1").idle
    /\ IsWindows(Fetched("w1").architecture)
    /\ "w1" \in DOMAIN instance_uptime /\ instance_uptime["w1"] = uptime

\* C7 as stated: at 58 min 30 s the executor is not selected, at 59 min 00 s
\* it is.
C7_SelectedFrom59Minutes ==
    /\ WindowsScenario(58 * 60 + 30) => "w1" \notin SelectedNames
    /\ WindowsScenario(59 * 60) => "w1" \in SelectedNames

\* C7, amended: the threshold is 55 minutes: at 54 min 59 s the executor is not
\* selected, at 55 min 00 s, 58 min 30 s and 59 min 00 s it is.
C7_SelectedFrom55Minutes ==
    /\ WindowsScenario(54 * 60 + 59) => "w1" \notin SelectedNames
    /\ WindowsScenario(55 * 60) => "w1" \in SelectedNames
    /\ WindowsScenario(58 * 60 + 30) => "w1" \in SelectedNames
    /\ WindowsScenario(59 * 60) => "w1" \in SelectedNames

C7_Witness ==
    /\ WindowsScenario(58 * 60 + 30)
    /\ "w1" \in SelectedNames
    /\ pc = "done" /\ "w1" \in req["terminate"]

UnableToDelete(n) == << "Unable to delete still connected jenkins node", n >>

\* C8: a delete request is sent for exactly the executors the master reports
\* not online when the deletion is attempted; for an executor reported online
\* no delete request is sent and exactly one error is logged.
C8_DeleteOnlyNotOnline ==
    /\ req["delete"] \subseteq DOMAIN delete_outcome
    /\ \A n \in DOMAIN delete_outcome :
         /\ n \in req["delete"] <=> delete_outcome[n].is_online = "offline"
         /\ delete_outcome[n].is_online = "online"
              => UnableToDelete(n) \in DOMAIN errlog /\ errlog[UnableToDelete(n)] = 1
         /\ delete_outcome[n].is_online # "online"
              => UnableToDelete(n) \notin DOMAIN errlog

\* an administrator brought one retiree back online before its deletion: it
\* is refused and still there, another retiree of the same pass is deleted
C8_Witness ==
    /\ pc = "done"
    /\ \E n, m \in DOMAIN delete_outcome :
         /\ delete_outcome[n].is_online = "online" /\ nodes[n].exists
         /\ delete_outcome[m].is_online = "offline" /\ ~nodes[m].exists
         /\ m \in req["delete"]

NotFoundOnDelete == {n \in DOMAIN delete_outcome : delete_outcome[n].answer = "404"}

\* C9: a 404 answer to a delete request raises nothing: unless a request of
\* the pass failed for a transient reason, no exception is pending, the pass
\* is not aborted, and every executor of the deletion fan-out is attended to.
C9_NotFoundOnDeleteIsSuccess ==
    (NotFoundOnDelete # {} /\ faults = 0) =>
        /\ failed = None
        /\ pc # "aborted"
        /\ pc \in {"orphans", "scale_up", "create_slot", "launch", "done"}
             => SeqToSet(final_list) \cap {n \in Names : nodes[n].exists /\ nodes[n].offline}
                  = {}

\* one delete was answered 404, another executor was deleted after or before
\* it, and the pass ran to its end
C9_Witness ==
    /\ pc = "done"
    /\ \E n \in NotFoundOnDelete :
         \E m \in DOMAIN delete_outcome : m # n /\ delete_outcome[m].answer = "200"

\* C10 as stated: a transient failure of one request of a fan-out is skipped
\* and never ends the pass.
C10_TransientFailureIsSkipped ==
    ~(pc = "aborted" /\ failed = "HTTPError 5xx")

-----------------------------------------------------------------------------
(* Claims about the demand analyzer and the label extraction               *)

DemandCalled == arg.fn = "determine_scale_up_nodes" /\ ret.raised = None

\* an executor of label l that is online and idle is among the arguments
IdleOnlineExecutorOf(l) ==
    \E i \in 1..Len(arg.nodes) :
        /\ ~arg.nodes[i].offline /\ arg.nodes[i].idle
        /\ _managed_node_label(arg.nodes[i]) = l

\* the queue items that resolve to l and have been queued for at least
\* min-queue-age[l]
MatureItemsOf(l) ==
    {i \in 1..Len(arg.queue_items) :
        /\ _label_from_queued_job(arg.nodes, arg.queue_items[i]) = l
        /\ arg.cur_time_s * 1000 - arg.queue_items[i].inQueueSince
             >= _minimum_queue_times_sec[l] * 1000}

\* the error records logged for the queue item with this id
ErrorsOfItem(id) == SelectSeq(ret.errors, LAMBDA e : e[2] = id)

\* C16: if an executor of label L is online and idle, the demand analyzer
\* returns no demand for L, and for every mature queue item that resolves to
\* L it logs exactly one error record (idle nodes are available).
C16_IdleLabelGetsNoDemand ==
    DemandCalled =>
        \A l \in _managed_jenkins_node_labels :
            IdleOnlineExecutorOf(l) =>
                /\ l \notin DOMAIN ret.value
                /\ \A i \in MatureItemsOf(l) :
                      ErrorsOfItem(arg.queue_items[i].id)
                        = << << "idle nodes available", arg.queue_items[i].id >> >>

\* the case: an idle online Linux executor and three mature items citing Linux
C16_Witness ==
    /\ DemandCalled
    /\ IdleOnlineExecutorOf(LINUX)
    /\ Cardinality(MatureItemsOf(LINUX)) = 3
    /\ Len(ret.errors) = 3

\* the smallest number of nodes of e executors each that hold m executors
NodesFor(m, e) == CHOOSE c \in 0..m : c * e >= m /\ (c = 0 \/ (c - 1) * e < m)

ExpectedDemand(l) ==
    LET m == Cardinality(MatureItemsOf(l))
        p == IF l \in DOMAIN arg.unconnected THEN Len(arg.unconnected[l]) ELSE 0
        c == NodesFor(m, _get_nb_executors_per_label[l])
    IN IF c - p > 0 THEN c - p ELSE 0

\* C17: for every managed, not ignored label L with e > 0 executors per node
\* and no idle online executor, the demand analyzer returns
\* max(0, ceil(m / e) - p) for L, m the mature queue items that resolve to L
\* and p the pending instances of L; a label with result 0 has no entry, so
\* every returned count is a positive integer.
C17_DemandIsCeilMinusPending ==
    DemandCalled =>
        /\ \A l \in _managed_jenkins_node_labels \ _ignored_jenkins_node_labels :
              (_get_nb_executors_per_label[l] > 0 /\ ~IdleOnlineExecutorOf(l)) =>
                  IF ExpectedDemand(l) = 0 THEN l \notin DOMAIN ret.value
                  ELSE l \in DOMAIN ret.value /\ ret.value[l] = ExpectedDemand(l)
        /\ \A l \in DOMAIN ret.value : ret.value[l] \in Nat \ {0}

\* the case: four mature Linux items (two nodes of three executors), one
\* pending Linux instance, one new node
C17_Witness ==
    /\ DemandCalled
    /\ ~IdleOnlineExecutorOf(LINUX)
    /\ Cardinality(MatureItemsOf(LINUX)) = 4
    /\ LINUX \in DOMAIN arg.unconnected /\ Len(arg.unconnected[LINUX]) = 1
    /\ ret.value = (LINUX :> 1)

\* C20: no ignored label is a key of the demand analyzer's result, whether a
\* queue item names the label or names an executor that carries it.
C20_IgnoredLabelNeverInDemand ==
    DemandCalled => DOMAIN ret.value \cap _ignored_jenkins_node_labels = {}

\* the case: a mature item names a busy executor that carries an ignored
\* label, another names the ignored label itself, and Windows is demanded
C20_Witness ==
    /\ DemandCalled
    /\ MatureItemsOf(RETIRED) # {}
    /\ \E i \in 1..Len(arg.queue_items) :
          arg.queue_items[i].why = Formulation(1, << RETIRED >>)
    /\ RETIRED \notin DOMAIN arg.unconnected
    /\ ret.value = (WINDOWS :> 1)

LabelCalled == arg.fn = "_label_from_queued_job" /\ ret.raised = None

\* C19: for every managed label L and every accepted formulation of a queue
\* reason, _label_from_queued_job returns L for the formulation with L in it,
\* with or without curly quotes around L, whatever the executor list (the
\* empty list included).
C19_LabelRoundTrip ==
    (LabelCalled /\ arg.formulation \in AcceptedFormulations
       /\ arg.label \in _managed_jenkins_node_labels)
    => ret.value = arg.label

\* the case: the fifth formulation with a quoted label and no executor
C19_Witness ==
    /\ LabelCalled
    /\ arg.formulation = 5 /\ arg.quoted /\ arg.nodes = << >>
    /\ arg.label = WINDOWS /\ ret.value = WINDOWS

-----------------------------------------------------------------------------
(* Claims about the pass as a whole                                        *)

\* C12: scaling_handler never lets an exception reach its invoker: whatever
\* a step of the pass raises, the handler logs it as fatal and returns, so
\* the pass never ends with an exception that escaped.
C12_HandlerCatchesEverything ==
    /\ pc # "escaped"
    /\ pc = "aborted" =>
          /\ failed \in ExceptionClasses
          /\ << "Unexpected exception", "fatal" >> \in DOMAIN errlog
          /\ errlog[<< "Unexpected exception", "fatal" >>] = 1

\* the case: the fetch of the Jenkins state failed with a connection error
\* and the handler returned
C12_Witness ==
    /\ pc = "aborted"
    /\ failed = "ConnectionError"
    /\ << "Unexpected exception", "fatal" >> \in DOMAIN errlog

\* C11: when execute_scale_up_logic has run to its end, every name whose
\* slot was created and whose instance launch did not succeed has had a
\* delete issued for its slot, and no delete was issued for a name whose
\* launch succeeded.
C11_FailedLaunchIsRolledBack ==
    (pc = "done" /\ DOMAIN scale_up_slots # {}) =>
        /\ \A n \in (SlotNames(scale_up_slots) \cap req["create_slot"]) \ started :
              n \in req["delete"]
        /\ \A n \in started : n \notin req["delete"]

ScaleDownPositions ==
    {"scale_down", "mark_offline", "poll", "mark_online", "terminate", "delete"}
ScaleUpPositions == {"scale_up", "create_slot", "launch", "rollback"}

PhaseOf(position) ==
    CASE position = "start" -> 0
      [] position \in ScaleDownPositions -> 1
      [] position = "orphans" -> 2
      [] position \in ScaleUpPositions -> 3
      [] OTHER -> 4

\* the kinds of request a phase sends
KindsOf(phase) ==
    CASE phase = 1 -> {"set_offline", "poll", "set_online", "terminate", "delete"}
      [] phase = 2 -> {"terminate_orphaned"}
      [] phase = 3 -> {"create_slot", "run_instances", "delete"}
      [] OTHER -> {}

\* C13: the phases of a pass are totally ordered. The fetches and the
\* analyzers run before the first request that changes anything and never
\* again; the scale-down requests are all finished before the termination of
\* the orphaned instances is requested; that termination is requested, for
\* every orphaned instance, before the first scale-up request.
C13_PhasesInOrder ==
    [][/\ \/ PhaseOf(pc') \in {PhaseOf(pc), PhaseOf(pc) + 1}
          \/ pc' \in {"aborted", "escaped"}
       /\ analysis' # analysis => pc = "start"
       /\ \A kind \in RequestKinds :
             req'[kind] # req[kind] => kind \in KindsOf(PhaseOf(pc))
       /\ (PhaseOf(pc') > PhaseOf(pc) /\ pc' \notin {"aborted", "escaped"}) => todo = {}
       /\ (PhaseOf(pc) = 2 /\ PhaseOf(pc') = 3) =>
             SeqToSet(orphaned_instances) \subseteq req'["terminate_orphaned"]
      ]_vars

\* the case: a pass that took an executor offline, terminated an orphaned
\* instance and created a slot, and ran to its end
C13_Witness ==
    /\ pc = "done"
    /\ req["set_offline"] # {}
    /\ req["terminate_orphaned"] # {}
    /\ req["create_slot"] # {}

-----------------------------------------------------------------------------
(* Claims about the executors the configuration tells the pass to ignore   *)

NamesIn(label2names) == UNION {SeqToSet(label2names[l]) : l \in DOMAIN label2names}

\* the executors of the fetched list that carry an ignored label
IgnoredLabelExecutors ==
    {snap[i].displayName : i \in {k \in DOMAIN snap :
        snap[k].assignedLabels \cap _ignored_jenkins_node_labels # {}}}

\* the executors of the fetched list whose display name is to be ignored
IgnoredNameExecutors ==
    {snap[i].displayName : i \in {k \in DOMAIN snap :
        snap[k].displayName \in _ignored_jenkins_node_names}}

Untouched(n) ==
    /\ n \notin NamesIn(scale_down_selected)
    /\ n \notin NamesIn(label2faulty_nodes)
    /\ n \notin req["set_offline"]
    /\ n \notin req["terminate"]
    /\ n \notin req["delete"]

\* C14: an executor that carries an ignored label is left alone: it is in
\* neither the retire set of the supply analyzer nor the faulty set, and no
\* pass marks it offline, terminates an instance by its name or deletes its
\* slot.
C14_IgnoredLabelLeftAlone == \A n \in IgnoredLabelExecutors : Untouched(n)

\* C15: an executor whose display name is in IGNORED_JENKINS_NODE_NAMES is
\* never touched, whatever labels it carries: it is in neither the retire
\* set nor the faulty set, it is never marked offline and its slot is never
\* deleted.
C15_IgnoredNameLeftAlone == \A n \in IgnoredNameExecutors : Untouched(n)

-----------------------------------------------------------------------------
(* Claims about the start from an empty master                             *)

\* the fetched list holds no executor (the built-in node of the master
\* aside) and the queue holds one item whose reason is the whole-queue text
BootstrapFromEmpty ==
    /\ Analyzed
    /\ \A i \in DOMAIN snap : snap[i].displayName = "master"
    /\ Len(queue) = 1
    /\ queue[1].why = RE_NO_AVAILABLE_NODES

\* C18 as stated: in the bootstrap case the demand is {mxnetlinux-cpu: 1},
\* and a pass that ran to its end created exactly one slot and launched
\* exactly one instance with that label.
C18_BootstrapFromEmpty ==
    BootstrapFromEmpty =>
        /\ label2num_instances = (LINUX :> 1)
        /\ pc = "done" =>
              /\ req["create_slot"] = {"new1"}
              /\ scale_up_slots = (LINUX :> << "new1" >>)
              /\ started = {"new1"}
              /\ instances["new1"].exists /\ instances["new1"].label = LINUX

\* the item has been queued for the minimum queue time of its label and the
\* provider lists no pending or running managed instance
BootstrapIsDue ==
    /\ BootstrapFromEmpty
    /\ ~NotMatureEnough(queue[1], LINUX, now)
    /\ orphaned_instances = << >>

\* C18, amended: in the bootstrap case, with the item queued for at least
\* the minimum queue time and no managed instance pending or running, the
\* demand is {mxnetlinux-cpu: 1}; a pass that ran to its end requested
\* exactly one slot and exactly one launch, both with that label, and the
\* instance runs with that label when the provider accepted the launch.
C18_BootstrapWhenDue ==
    BootstrapIsDue =>
        /\ label2num_instances = (LINUX :> 1)
        /\ pc = "done" =>
              /\ req["create_slot"] = {"new1"}
              /\ scale_up_slots = (LINUX :> << "new1" >>)
              /\ req["run_instances"] = {"new1"}
              /\ started \subseteq {"new1"}
              /\ started = {"new1"} =>
                    instances["new1"].exists /\ instances["new1"].label = LINUX

\* the case: the bootstrap pass ran to its end and the instance was launched
C18_Witness ==
    /\ BootstrapIsDue
    /\ pc = "done"
    /\ started = {"new1"}
    /\ instances["new1"].label = LINUX

-----------------------------------------------------------------------------
(* Claims about the termination by names                                   *)

TerminateCalled == arg.fn = "_terminate_ec2_instances" /\ ret # NotCalled

\* C22: _terminate_ec2_instances splits the name list into consecutive
\* chunks of at most EC2_FILTER_CHUNK_SIZE names and makes one terminate call
\* per chunk; every input name is in exactly one chunk, and for an empty
\* list no call is made.
C22_TerminateInChunks ==
    TerminateCalled =>
        LET names == arg.instance_names
            calls == ret.value
        IN /\ names = << >> => calls = << >>
           /\ Len(calls) = Ceil(Len(names), EC2_FILTER_CHUNK_SIZE)
           /\ \A k \in DOMAIN calls :
                 /\ calls[k] # << >>
                 /\ Len(calls[k]) <= EC2_FILTER_CHUNK_SIZE
                 /\ calls[k] = SubSeq(names, (k - 1) * EC2_FILTER_CHUNK_SIZE + 1,
                                      Min(k * EC2_FILTER_CHUNK_SIZE, Len(names)))
           /\ \A i \in DOMAIN names :
                 Cardinality({k \in DOMAIN calls :
                                 names[i] \in SeqToSet(calls[k])}) = 1

\* the case: a list longer than two chunks, terminated with three calls
C22_Witness ==
    /\ TerminateCalled
    /\ Len(arg.instance_names) > 2 * EC2_FILTER_CHUNK_SIZE
    /\ Len(ret.value) = 3

-----------------------------------------------------------------------------
(* Claims about the steps of scale-down                                    *)

\* C23: scale-down interrupts no build: every executor of the final retire
\* set, the retirees that were already offline when scale-down started
\* included, was seen idle by a poll of this pass before the termination of
\* its instance is requested.
C23_RetireesSeenIdle ==
    \A n \in req["terminate"] : n \in DOMAIN polled /\ polled[n].idle

-----------------------------------------------------------------------------
(* Claims about the fault detector                                         *)

DetectCalled == arg.fn = "_determine_faulty_nodes" /\ ret # NotCalled
DetectReturned == DetectCalled /\ ret.raised = None

\* the executor of the call, and what the master says of it
Subject == arg.nodes[1]
MonitorCause ==
    /\ Subject.offlineCauseClass # None
    /\ StartsWith(Subject.offlineCauseClass, NODE_MONITOR_OFFLINE_CAUSE)
DownscaleMark ==
    \/ Subject.offlineCauseReason = DOWNSCALE_REASON
    \/ StartsWith(Subject.offlineCauseReason, DOWNSCALE_MANUAL_REASON)
HasInstance == \E i \in DOMAIN arg.instances : arg.instances[i].Name = Subject.displayName
OwnUptime == ret.uptime[Subject.displayName]

\* what the analyzers say of it
SubjectFaulty == Subject.displayName \in NamesIn(ret.detected.faulty)
SubjectPending == Subject.displayName \in NamesIn(ret.unconnected)
SubjectSelected == \E sel \in ret.selected : Subject.displayName \in NamesIn(sel)

\* C25 as stated: every executor other than the master whose offline cause
\* is one of the node monitors is faulty, whether or not it is temporarily
\* offline.
C25_MonitorCauseIsFaulty ==
    (DetectReturned /\ Subject.displayName # "master" /\ MonitorCause) => SubjectFaulty

\* C25 amended: an executor other than the master that resolves to a label,
\* is temporarily offline and whose offline cause is one of the node monitors
\* is faulty; with the same cause but not temporarily offline, without a
\* downscale mark and with an instance that is not past its startup limit,
\* it is not faulty.
C25_MonitorOfflineIsFaulty ==
    (DetectReturned /\ Subject.displayName # "master" /\ MonitorCause
        /\ _managed_node_label(Subject) # None)
    => /\ Subject.temporarilyOffline => SubjectFaulty
       /\ (/\ ~Subject.temporarilyOffline /\ ~DownscaleMark
           /\ Subject.displayName \in DOMAIN ret.uptime
           /\ ~StartedTooLate(OwnUptime, LINUX))
          => ~SubjectFaulty

C25_Witness ==
    /\ DetectReturned /\ Subject.displayName = "a1" /\ MonitorCause
    /\ _managed_node_label(Subject) = LINUX
    /\ Subject.temporarilyOffline /\ ~DownscaleMark /\ HasInstance
    /\ SubjectFaulty

\* the executor carries more than one managed label and no ignored label
SeveralManagedLabels ==
    /\ Cardinality(Subject.assignedLabels \cap _managed_jenkins_node_labels) > 1
    /\ Subject.assignedLabels \cap _ignored_jenkins_node_labels = {}

\* C21: an executor with more than one managed label and no ignored label
\* resolves to no label and is skipped everywhere: it is never selected by
\* the supply analyzer, never in the faulty set, and a queue item that names
\* it adds no demand.
C21_SeveralLabelsSkipped ==
    (DetectReturned /\ SeveralManagedLabels)
    => /\ _managed_node_label(Subject) = None
       /\ ~SubjectSelected
       /\ ~SubjectFaulty
       /\ ret.demand = EmptyMap

\* the four faults, as the claim words them; the instances of the executor
\* carry the tag label LINUX
PendingTooLong == SubjectPending /\ StartedTooLate(OwnUptime, LINUX)
OfflineByMonitor == Subject.temporarilyOffline /\ MonitorCause
SlotWithoutInstance == ~HasInstance
FaultAsSpecified ==
    PendingTooLong \/ OfflineByMonitor \/ DownscaleMark \/ SlotWithoutInstance

\* C26: an executor other than the master that resolves to a label is in
\* the faulty set if and only if its instance is pending past the startup
\* limit, or it is temporarily offline by a node monitor, or it carries a
\* downscale mark, or no managed instance carries its name.
C26_FaultyIff ==
    (DetectReturned /\ Subject.displayName # "master"
        /\ _managed_node_label(Subject) # None)
    => (SubjectFaulty <=> FaultAsSpecified)

\* the executor is a slot of scale-up whose instance runs and which has not
\* connected yet: a generated name, one managed label, offline and not
\* temporarily offline, no downscale mark
StartingUp ==
    /\ Subject.displayName \notin _ignored_jenkins_node_names
    /\ _managed_node_label(Subject) = LINUX
    /\ HasInstance
    /\ Subject.offline /\ ~Subject.temporarilyOffline
    /\ ~DownscaleMark

\* C27: an instance launched by scale-up whose executor has not connected
\* is counted as pending and is neither selected for retirement, nor orphan,
\* nor faulty while its uptime is at most the startup limit of its label; it
\* is faulty once the uptime exceeds the limit.
C27_StartupGrace ==
    (DetectCalled /\ StartingUp)
    => /\ ret.raised = None
       /\ SubjectPending
       /\ ~SubjectSelected
       /\ Subject.displayName \notin SeqToSet(ret.detected.orphaned)
       /\ SubjectFaulty <=> (OwnUptime > _maximum_startup_time[LINUX])

C27_Witness ==
    /\ DetectCalled /\ StartingUp
    /\ OwnUptime = _maximum_startup_time[LINUX]
    /\ SubjectPending /\ ~SubjectFaulty

LabelsOf(insts) == {insts[i].label : i \in DOMAIN insts}

\* an executor of the list carries the name
Matched(name) == \E k \in DOMAIN arg.nodes : arg.nodes[k].displayName = name

\* C24: every managed instance falls into one bucket: with a matching
\* executor it is not orphan; with no matching executor it is orphan and is
\* not in the pending map that is subtracted from the demand of its label.
C24_OneBucketPerInstance ==
    DetectReturned
    => \A i \in DOMAIN arg.instances :
        /\ Matched(arg.instances[i].Name)
             => arg.instances[i].Name \notin SeqToSet(ret.detected.orphaned)
        /\ ~Matched(arg.instances[i].Name)
             => /\ arg.instances[i].Name \in SeqToSet(ret.detected.orphaned)
                /\ arg.instances[i].Name \notin NamesIn(ret.unconnected)

\* the names of the instances of the call with the tag label that have no
\* executor, or whose executor is offline and not temporarily offline
Starting(label) ==
    {arg.instances[i].Name : i \in {j \in DOMAIN arg.instances :
        /\ arg.instances[j].label = label
        /\ \/ ~Matched(arg.instances[j].Name)
           \/ \E k \in DOMAIN arg.nodes :
                /\ arg.nodes[k].displayName = arg.instances[j].Name
                /\ arg.nodes[k].offline /\ ~arg.nodes[k].temporarilyOffline}}

\* C34: the pending map holds, under each tag label, exactly the names of
\* the managed instances that have no executor or whose executor is offline
\* and not temporarily offline, each once; an instance whose executor is
\* online or temporarily offline is not in the map.
C34_PendingMapIsExact ==
    DetectReturned
    => /\ DOMAIN ret.unconnected = {label \in LabelsOf(arg.instances) : Starting(label) # {}}
       /\ \A label \in DOMAIN ret.unconnected :
            /\ SeqToSet(ret.unconnected[label]) = Starting(label)
            /\ Len(ret.unconnected[label]) = Cardinality(Starting(label))

\* the case: an instance whose executor has not connected and an instance
\* without executor, under two labels
C34_Witness ==
    /\ DetectReturned
    /\ Subject.displayName = "a1"
    /\ ret.unconnected = (LINUX :> << "a1" >>) @@ (WINDOWS :> << "w1" >>)

-----------------------------------------------------------------------------
(* Claims about orphaned instances and stale slots in a pass               *)

\* the managed instances the pass fetched for which the master lists no
\* executor
SnapshotOrphans ==
    {n \in DOMAIN instance_uptime : \A k \in DOMAIN snap : snap[k].displayName # n}

PassEnded == Analyzed /\ pc \in {"done", "aborted"}

\* C28: every managed instance whose name matches no executor is reported
\* as orphan, whatever its uptime, and its termination is requested in the
\* same pass.
C28_OrphansTerminatedInPass ==
    PassEnded
    => \A n \in SnapshotOrphans :
         /\ n \in SeqToSet(orphaned_instances)
         /\ n \in req["terminate_orphaned"]

\* the slots the pass fetched that carry a managed label, are not online and
\* have no managed instance of their name
StaleSlots ==
    {snap[k].displayName : k \in {j \in DOMAIN snap :
        /\ _managed_node_label(snap[j]) \in _managed_jenkins_node_labels
        /\ snap[j].offline
        /\ snap[j].displayName \notin _ignored_jenkins_node_names
        /\ snap[j].displayName \notin DOMAIN instance_uptime}}

\* C29: a pass that runs to its end classifies every stale slot as faulty
\* and issues a delete for it.
C29_StaleSlotDeleted ==
    (Analyzed /\ pc = "done")
    => \A n \in StaleSlots :
         /\ n \in NamesIn(label2faulty_nodes)
         /\ n \in req["delete"]

-----------------------------------------------------------------------------
(* Claims about the order of the requests of scale-down                    *)

\* C30: within scale-down, a poll is requested only when set_offline was
\* requested for every online retiree, and no set_offline follows a poll; a
\* slot delete is requested only when the termination of the whole final
\* list was requested, only for a name whose termination was requested in
\* this pass, and no termination of retirees follows a delete.
C30_ScaleDownOrder ==
    [][/\ req'["poll"] # req["poll"]
            => /\ SeqToSet(nodes_online) \subseteq req["set_offline"]
               /\ req'["set_offline"] = req["set_offline"]
       /\ req'["set_offline"] # req["set_offline"] => req["poll"] = {}
       /\ (pc = "delete" /\ req'["delete"] # req["delete"])
            => /\ SeqToSet(final_list) \subseteq req["terminate"]
               /\ req'["delete"] \subseteq req["terminate"]
               /\ req'["terminate"] = req["terminate"]
       /\ req'["terminate"] # req["terminate"] => req["delete"] = {}
      ]_vars

\* the case: a pass that ran to its end after it took an executor offline,
\* polled it, terminated its instance and deleted its slot
C30_Witness ==
    /\ pc = "done"
    /\ \E n \in req["delete"] :
         n \in req["set_offline"] /\ n \in req["poll"] /\ n \in req["terminate"]

-----------------------------------------------------------------------------
(* Claims about the order of the requests of scale-up                      *)

\* C31: within scale-up, the launch of an instance is requested for a name
\* only after the create-slot request for that name was made, all
\* create-slot requests are made before the first launch request, and no
\* launch is requested and no instance started for a name for which no
\* create-slot request was issued.
C31_SlotBeforeLaunch ==
    [][/\ \A n \in req'["run_instances"] \ req["run_instances"] :
            n \in req["create_slot"]
       /\ req'["create_slot"] # req["create_slot"] => req["run_instances"] = {}
       /\ \A n \in Names :
            (instances'[n].exists /\ ~instances[n].exists) => n \in req["create_slot"]
      ]_vars

\* the case: the demand names two labels, one of them has no slot
\* configuration; an instance was launched for the other one
C31_Witness ==
    /\ arg.fn = "execute_scale_up_logic"
    /\ pc = "done"
    /\ DOMAIN label2num_instances \ arg.slave_configuration # {}
    /\ req["run_instances"] # {}
    /\ req["run_instances"] \subseteq req["create_slot"]

-----------------------------------------------------------------------------
(* Claims about the supply analyzer                                        *)

SupplyCalled == arg.fn = "determine_scale_down_nodes" /\ ret # NotCalled

\* the executors of the call that may be retired under a label, and the idle
\* Windows executors of the label held back by the hourly rule
Retirable(label) ==
    {arg.nodes_data[i].displayName : i \in {j \in DOMAIN arg.nodes_data :
        /\ ~arg.nodes_data[j].offline /\ arg.nodes_data[j].idle
        /\ _managed_node_label(arg.nodes_data[j]) = label
        /\ arg.nodes_data[j].architecture # None
        /\ IsWindows(arg.nodes_data[j].architecture)
             => /\ arg.nodes_data[j].displayName \in DOMAIN arg.instance_uptime
                /\ arg.instance_uptime[arg.nodes_data[j].displayName] % 3600
                     >= WINDOWS_MIN_PARTIAL_RUNTIME_SECONDS}}
HeldBack(label) ==
    {arg.nodes_data[i].displayName : i \in {j \in DOMAIN arg.nodes_data :
        /\ ~arg.nodes_data[j].offline /\ arg.nodes_data[j].idle
        /\ _managed_node_label(arg.nodes_data[j]) = label
        /\ arg.nodes_data[j].architecture # None
        /\ IsWindows(arg.nodes_data[j].architecture)
        /\ arg.nodes_data[j].displayName \in DOMAIN arg.instance_uptime
        /\ arg.instance_uptime[arg.nodes_data[j].displayName] % 3600
             < WINDOWS_MIN_PARTIAL_RUNTIME_SECONDS}}
Floor(label) == Get(warm_pool_size, label, 0)
Selected(result, label) == SeqToSet(Get(result.value, label, << >>))

\* what the claim says of one result of the analyzer
AsSpecified(result) ==
    /\ result.raised = None
    /\ DOMAIN result.value \subseteq _managed_jenkins_node_labels
    /\ \A label \in _managed_jenkins_node_labels :
         /\ Selected(result, label) \subseteq Retirable(label)
         /\ Cardinality(Selected(result, label))
              = Max(0, Cardinality(Retirable(label))
                       - Max(0, Floor(label) - Cardinality(HeldBack(label))))

\* C32: for every input and every warm-pool configuration, also with a
\* floor above the number of idle executors, the supply analyzer returns
\* without error, selects only retirable executors of the label and exactly
\* max(0, r - max(0, k - n)) of them.
C32_SupplyAnalyzerTotal ==
    SupplyCalled => \A result \in ret.results : AsSpecified(result)

-----------------------------------------------------------------------------
(* Claims about the rounding of the upscale cap                            *)

RequestedCount(label) == arg.label2num_instances[label]
Share(label) == Ceil(RequestedCount(label) * arg.limit, SumMap(arg.label2num_instances))
UpscaleCut ==
    /\ UpscaleCalled /\ ret.raised = None
    /\ SumMap(arg.label2num_instances) > arg.limit
CutShort(label) == ret.value[label] < Share(label)
LargestRequest(label) ==
    \A other \in DOMAIN arg.label2num_instances : RequestedCount(other) <= RequestedCount(label)

\* C33 as stated: when the demand exceeds the cap, every label that receives
\* fewer than ceil(requested * cap / total) nodes has the maximum requested
\* count among all labels.
C33_OnlyLargestIsCut ==
    UpscaleCut => \A label \in DOMAIN arg.label2num_instances :
                    CutShort(label) => LargestRequest(label)

\* C33 amended: when the demand exceeds the cap, every label that receives
\* fewer than ceil(requested * cap / total) nodes was requested at least as
\* often as every label that receives that many, and whenever a label is cut
\* short a label with the maximum requested count is cut short.
C33_LossesHitLargerRequests ==
    UpscaleCut
    => /\ \A cut, full \in DOMAIN arg.label2num_instances :
            (CutShort(cut) /\ ~CutShort(full)) => RequestedCount(cut) >= RequestedCount(full)
       /\ (\E cut \in DOMAIN arg.label2num_instances : CutShort(cut))
            => \E cut \in DOMAIN arg.label2num_instances :
                 CutShort(cut) /\ LargestRequest(cut)

\* the example of the claim: {a: 1, b: 2, c: 7} with cap 5 gives {a: 1, b: 1, c: 3}
C33_Witness ==
    /\ UpscaleCut
    /\ arg.limit = 5
    /\ arg.label2num_instances = ("a" :> 1) @@ ("b" :> 2) @@ ("c" :> 7)
    /\ ret.value = ("a" :> 1) @@ ("b" :> 1) @@ ("c" :> 3)
    /\ CutShort("c") /\ ~CutShort("a") /\ ~CutShort("b")

-----------------------------------------------------------------------------
(* Claims about the two analyzers of one pass                              *)

\* C35: within one pass no label is both scaled up and selected for idle
\* retirement: the labels of the demand and the labels the supply analyzer
\* selected executors of, computed from the same list of executors, are
\* disjoint.
C35_DemandAndSupplyDisjoint ==
    Analyzed => DOMAIN label2num_instances \cap DOMAIN scale_down_selected = {}

\* the case: a pass that found demand for one label and idle executors to
\* retire of another, and a build waiting for a label with idle executors
C35_Witness ==
    /\ Analyzed
    /\ LINUX \in DOMAIN label2num_instances
    /\ WINDOWS \in DOMAIN scale_down_selected

-----------------------------------------------------------------------------
(* Claims about the tag filter of the termination                          *)

TerminateTaggedCalled == arg.fn = "instances.filter.terminate" /\ ret # NotCalled

\* C36: the termination by names leaves every instance that is not tagged
\* AutoScaledSlave=True as it was, also when its Name tag is in the list;
\* the instances it changes are tagged AutoScaledSlave=True and named in the
\* list.
C36_OnlyTaggedTerminated ==
    TerminateTaggedCalled
    => /\ \A vm \in arg.vms : vm.AutoScaledSlave # "True" => vm \in ret.value
       /\ \A vm \in arg.vms :
            vm \notin ret.value
              => /\ vm.AutoScaledSlave = "True"
                 /\ vm.Name \in SeqToSet(arg.instance_names)
                 /\ [vm EXCEPT !.state = "shutting-down"] \in ret.value

\* the case: two instances carry the name of a retired executor; the one the
\* autoscaler launched is terminated, the other one still runs
C36_Witness ==
    /\ TerminateTaggedCalled
    /\ "a1" \in SeqToSet(arg.instance_names)
    /\ Vm(<< "a1", 3 >>, "a1", None) \in arg.vms \cap ret.value
    /\ Vm(<< "a1", 1 >>, "a1", "True") \in arg.vms \ ret.value

-----------------------------------------------------------------------------
(* Claims about the connect loop of the agent                              *)

GaveUp ==
    /\ arg.fn = "main"
    /\ ret.pos = "returned"
    /\ ret.tag = Tag("error-too-many-attempts", "")
    /\ ret.returns = << 1 >>

\* C38: at every test of the loop the round counter is the number of
\* consecutive completed rounds in which no connection lasted longer than
\* RETRY_COUNTER_RESET_TIME_SECONDS (so it is 0 after a round with a longer
\* connection); with RETRY_LIMIT such rounds the agent starts no further round
\* and, unless the renaming raises, ends with the Name tag
\* 'error-too-many-attempts' and the return code 1; it ends that way only
\* then, never after a round with a longer connection.
C38_GivesUpAfterRetryLimit ==
    [][arg.fn = "main"
       => /\ ret'.pos = "while" => ret'.i = ret'.streak
          /\ (ret.pos = "connect" /\ ret'.pos = "while"
                /\ ret.longest > RETRY_COUNTER_RESET_TIME_SECONDS) => ret'.i = 0
          /\ (ret.pos = "while" /\ ret.streak >= RETRY_LIMIT)
               => /\ ret'.pos = "returned"
                  /\ ret'.raised = None => GaveUp'
          /\ (GaveUp' /\ ~GaveUp)
               => /\ ret.pos = "while"
                  /\ ret.streak = RETRY_LIMIT
                  /\ ret.longest <= RETRY_COUNTER_RESET_TIME_SECONDS]_vars

\* the case: five rounds in a row without a long connection, the last one
\* with a connection of exactly the threshold, and the agent has given up
C38_Witness ==
    /\ GaveUp
    /\ ret.streak = RETRY_LIMIT
    /\ ret.longest = RETRY_COUNTER_RESET_TIME_SECONDS

-----------------------------------------------------------------------------
(* Claims about the parallelism of the fan-outs                            *)

InFlight(fns) ==
    LET ks == {k \in DOMAIN FanOutsOfPass : FanOutsOfPass[k].fn \in fns}
        RECURSIVE sum(_)
        sum(S) == IF S = {} THEN 0
                  ELSE LET k == CHOOSE x \in S : TRUE
                       IN ret.in_flight[k] + sum(S \ {k})
    IN sum(ks)

\* C37: at every instant of a pass at most 10 create-slot requests, at most
\* 3 launch requests and at most 100 other requests to the master (node
\* object, mark offline, poll, mark online, delete) are in flight, and a
\* fan-out that has not started yet or was left has no request in flight: a
\* fan-out starts only when the ones before it have been joined.
C37_FanOutsCappedAndJoined ==
    arg.fn = "Parallel"
    => /\ InFlight({"_create_jenkins_node_slots"}) <= 10
       /\ InFlight({"_launch_ec2_instances"}) <= 3
       /\ InFlight({"_convert_to_jenkins_nodes", "_mark_nodes_offline",
                    "_partition_non_idle", "_mark_nodes_online",
                    "_delete_jenkins_node_objects"}) <= 100
       /\ \A k \in DOMAIN FanOutsOfPass : k # ret.pos => ret.in_flight[k] = 0
       /\ ret.state = "idle" => ret.in_flight = NoneInFlight

\* the case: the create-slot fan-out has 11 jobs, 10 requests are in flight
\* and one job waits for a thread, after the fan-outs of scale-down were joined
C37_Witness ==
    /\ arg.fn = "Parallel"
    /\ ret.pos \in DOMAIN FanOutsOfPass
    /\ FanOutsOfPass[ret.pos].fn = "_create_jenkins_node_slots"
    /\ ret.state = "running"
    /\ ret.in_flight[ret.pos] = 10
    /\ ret.waiting = 1

=============================================================================
